---- MODULE Spec2Model ----
(***************************************************************************)
(* InsurTech classification engine: the keyword classifier                 *)
(* (classify_insurtech.classify_description), the per-row dispatcher       *)
(* (classify_insurtech.classify_company_row) and the remote adapter        *)
(* (openai_classifier.classify_with_openai).                               *)
(*                                                                         *)
(* A Python str is a sequence of one-character strings; a Python value is  *)
(* a record [kind, s, n] with kind in {"str", "none", "nan", "int"}.       *)
(***************************************************************************)
EXTENDS Integers, Sequences, FiniteSets, TLC

VARIABLES
    text,                \* argument of the last classify_description call
    total_words,         \* its local total_words (-1: never assigned)
    scores,              \* its local scores dict (archetype -> count)
    keywords_found_map,  \* its local keywords_found_map (archetype -> list)
    ret,                 \* its return value (archetype, confidence, evidence)
    calls,               \* log of (argument, return value) of the calls made
    pc,                  \* "ready": the call is pending, "returned": it is over
    row,                 \* classify_company_row: the record (column -> value)
    main_desc_col,       \* its designated description column
    use_ai,              \* its use_ai flag
    OPENAI_AVAILABLE,    \* whether the import of openai_classifier succeeded
    client,              \* openai_classifier._client: "none" or "constructed"
    outcomes,            \* what the environment does to attempt 1, 2, 3 of the adapter
    combined_text,       \* the local combined_text
    request,             \* the description put into the last prompt built
    events,              \* what the adapter did during the call, in order
    adapter,             \* "not_called", "returned" or "raised"
    row_ret,             \* the six fields classify_company_row returned
    row_ret_types,       \* the Python type of each of the six
    row_raised,          \* whether classify_company_row raised instead
    runner,              \* the batch runner: "main" (app.py) or "run_analysis"
    df,                  \* its input table: one record (column -> value) per row
    df_columns,          \* the columns of the table, in column order
    service,             \* what the remote service does with row 1, 2, ...
    idx,                 \* how many rows the loop has handled
    results,             \* the local results list
    processed_count,     \* st.session_state.processed_count
    actual_cost,         \* st.session_state.actual_cost, in units of 0.0001
    checkpoint_file,     \* progress_backup.csv: NoFile or what was written last
    write_errors,        \* how many writes of the checkpoint file have failed
    batch_log,           \* what the runner did, in order
    processed_data,      \* st.session_state.processed_data, the final table
    reclassified_count,  \* st.session_state.reclassified_count
    batch_no,            \* how many batches the session has started
    col_year,            \* the column parse_founding_year returned, "" for None
    year_series          \* the years parse_founding_year returned

kwVars == <<text, total_words, scores, keywords_found_map, ret>>
rowVars == <<row, main_desc_col, use_ai, OPENAI_AVAILABLE, client, outcomes,
             combined_text, request, events, adapter, row_ret, row_ret_types,
             row_raised>>
batchVars == <<runner, df, df_columns, service, idx, results, processed_count,
               actual_cost, checkpoint_file, write_errors, batch_log,
               processed_data, reclassified_count, batch_no>>
yearVars == <<col_year, year_series>>
vars == <<kwVars, calls, pc, rowVars, batchVars, yearVars>>

----------------------------------------------------------------------------
(* Bounds of the model *)

MaxWords == 3
MaxCalls == 3
\* the longest table a batch runner is given
MaxRows == 10
\* how many writes of the checkpoint file may fail during one batch
MaxWriteErrors == 1
\* how many batches one application session runs
MaxBatches == 2

----------------------------------------------------------------------------
(* Python values and strings *)

PyStr(s) == [kind |-> "str", s |-> s, n |-> 0]
PyNone == [kind |-> "none", s |-> <<>>, n |-> 0]
PyNaN == [kind |-> "nan", s |-> <<>>, n |-> 0]
PyInt(n) == [kind |-> "int", s |-> <<>>, n |-> n]

isinstance_str(v) == v.kind = "str"

UpperToLower ==
    [A |-> "a", B |-> "b", C |-> "c", D |-> "d", E |-> "e", F |-> "f", G |-> "g",
     H |-> "h", I |-> "i", J |-> "j", K |-> "k", L |-> "l", M |-> "m", N |-> "n",
     O |-> "o", P |-> "p", Q |-> "q", R |-> "r", S |-> "s", T |-> "t", U |-> "u",
     V |-> "v", W |-> "w", X |-> "x", Y |-> "y", Z |-> "z"]

\* str.lower(), one character
LowerChar(c) == IF c \in DOMAIN UpperToLower THEN UpperToLower[c] ELSE c

\* str.lower()
lower(s) == [i \in 1..Len(s) |-> LowerChar(s[i])]

\* the characters the regular expression class \w matches
WordChars ==
    {"a","b","c","d","e","f","g","h","i","j","k","l","m","n","o","p","q","r","s",
     "t","u","v","w","x","y","z","0","1","2","3","4","5","6","7","8","9","_"}
     \cup DOMAIN UpperToLower

\* as CountWords, with every run of non-blank characters taken for a word
CountWords_NonBlank(s) ==
    Cardinality({i \in 1..Len(s) :
        /\ s[i] # " "
        /\ (i = 1 \/ s[i-1] = " ")})

\* len(re.findall(r'\b\w+\b', s)): the number of maximal runs of \w characters
CountWords(s) ==
    Cardinality({i \in 1..Len(s) :
        /\ s[i] \in WordChars
        /\ (i = 1 \/ s[i-1] \notin WordChars)})

\* sub occurs in s at position i
MatchAt(sub, s, i) ==
    /\ i + Len(sub) - 1 <= Len(s)
    /\ \A j \in 1..Len(sub) : s[i + j - 1] = sub[j]

\* sub in s, as a whole word only
Contains_WholeWord(sub, s) ==
    \E i \in 1..(Len(s) - Len(sub) + 1) :
        /\ MatchAt(sub, s, i)
        /\ (i = 1 \/ s[i - 1] \notin WordChars)
        /\ (i + Len(sub) > Len(s) \/ s[i + Len(sub)] \notin WordChars)

\* sub in s
Contains(sub, s) == \E i \in 1..(Len(s) - Len(sub) + 1) : MatchAt(sub, s, i)

RECURSIVE CountFrom(_, _, _)
CountFrom(sub, s, i) ==
    IF i + Len(sub) - 1 > Len(s) THEN 0
    ELSE IF MatchAt(sub, s, i) THEN 1 + CountFrom(sub, s, i + Len(sub))
    ELSE CountFrom(sub, s, i + 1)

\* every position where sub occurs counted, overlapping or not
StrCount_Overlapping(sub, s) ==
    Cardinality({i \in 1..(Len(s) - Len(sub) + 1) : MatchAt(sub, s, i)})

\* s.count(sub): non-overlapping occurrences, scanning left to right
StrCount(sub, s) == CountFrom(sub, s, 1)

RECURSIVE JoinFrom(_, _, _)
JoinFrom(sep, parts, k) ==
    IF k > Len(parts) THEN <<>>
    ELSE IF k = Len(parts) THEN parts[k]
    ELSE parts[k] \o sep \o JoinFrom(sep, parts, k + 1)

\* sep.join(parts)
Join(sep, parts) == JoinFrom(sep, parts, 1)

CommaSpace == <<","," ">>
Space == <<" ">>

----------------------------------------------------------------------------
(* ARCHETYPES: the keyword table, in declaration order *)

KW_Enablers ==
    << <<"p","l","a","t","f","o","r","m">>,
       <<"i","n","f","r","a","s","t","r","u","c","t","u","r","e">>,
       <<"s","a","a","s">>,
       <<"c","l","o","u","d">>,
       <<"b","a","c","k","-","e","n","d">>,
       <<"w","h","i","t","e","-","l","a","b","e","l">>,
       <<"t","e","c","h","n","o","l","o","g","y"," ","p","r","o","v","i","d","e","r">>,
       <<"s","o","f","t","w","a","r","e">>,
       <<"a","p","i">>,
       <<"c","o","r","e"," ","s","y","s","t","e","m">>,
       <<"d","i","g","i","t","i","z","e">>,
       <<"a","n","a","l","y","t","i","c","s">>,
       <<"d","a","t","a"," ","p","r","o","v","i","d","e","r">>,
       <<"u","n","d","e","r","w","r","i","t","i","n","g"," ","p","l","a","t","f","o","r","m">>,
       <<"c","l","a","i","m","s"," ","m","a","n","a","g","e","m","e","n","t">>,
       <<"b","2","b">> >>

KW_Connectors ==
    << <<"m","a","r","k","e","t","p","l","a","c","e">>,
       <<"c","o","m","p","a","r","i","s","o","n">>,
       <<"b","r","o","k","e","r">>,
       <<"a","g","g","r","e","g","a","t","o","r">>,
       <<"c","o","n","n","e","c","t">>,
       <<"m","a","t","c","h">>,
       <<"d","i","s","t","r","i","b","u","t","i","o","n">>,
       <<"a","g","e","n","c","y">>,
       <<"m","g","a">>,
       <<"i","n","t","e","r","m","e","d","i","a","r","y">>,
       <<"p","o","r","t","a","l">>,
       <<"a","g","e","n","t">>,
       <<"b","u","y","i","n","g">> >>

KW_Innovators ==
    << <<"o","n","-","d","e","m","a","n","d">>,
       <<"p","2","p">>,
       <<"p","e","e","r","-","t","o","-","p","e","e","r">>,
       <<"p","a","r","a","m","e","t","r","i","c">>,
       <<"m","i","c","r","o","i","n","s","u","r","a","n","c","e">>,
       <<"u","s","a","g","e","-","b","a","s","e","d">>,
       <<"g","i","g"," ","e","c","o","n","o","m","y">>,
       <<"n","e","w"," ","m","o","d","e","l">>,
       <<"p","a","y","-","p","e","r","-","m","i","l","e">>,
       <<"i","n","n","o","v","a","t","i","v","e"," ","p","r","o","d","u","c","t">>,
       <<"c","r","y","p","t","o">> >>

KW_Disruptors ==
    << <<"a","u","t","o","m","a","t","i","o","n">>,
       <<"a","i","-","d","r","i","v","e","n">>,
       <<"i","n","s","t","a","n","t">>,
       <<"m","a","c","h","i","n","e"," ","l","e","a","r","n","i","n","g">>,
       <<"d","i","s","r","u","p","t">>,
       <<"f","u","l","l","y"," ","d","i","g","i","t","a","l">>,
       <<"c","a","r","r","i","e","r">>,
       <<"f","u","l","l","-","s","t","a","c","k">>,
       <<"r","e","p","l","a","c","e">>,
       <<"a","r","t","i","f","i","c","i","a","l"," ","i","n","t","e","l","l","i","g","e","n","c","e">>,
       <<"c","h","a","l","l","e","n","g","e","r">> >>

KW_Protectors ==
    << <<"p","r","e","v","e","n","t","i","o","n">>,
       <<"m","i","t","i","g","a","t","i","o","n">>,
       <<"m","o","n","i","t","o","r","i","n","g">>,
       <<"i","o","t">>,
       <<"w","e","a","r","a","b","l","e","s">>,
       <<"t","e","l","e","m","a","t","i","c","s">>,
       <<"c","y","b","e","r">>,
       <<"s","e","c","u","r","i","t","y">>,
       <<"p","r","e","d","i","c","t">>,
       <<"a","l","e","r","t">>,
       <<"s","a","f","e","t","y">>,
       <<"r","i","s","k"," ","m","a","n","a","g","e","m","e","n","t">>,
       <<"h","e","a","l","t","h">>,
       <<"w","e","l","l","n","e","s","s">> >>

KW_Integrators ==
    << <<"e","m","b","e","d","d","e","d">>,
       <<"p","o","i","n","t"," ","o","f"," ","s","a","l","e">>,
       <<"b","2","b","2","c">>,
       <<"p","a","r","t","n","e","r">>,
       <<"i","n","t","e","g","r","a","t","i","o","n">>,
       <<"a","d","d","-","o","n">>,
       <<"a","p","i","-","f","i","r","s","t">>,
       <<"c","h","e","c","k","o","u","t">>,
       <<"p","l","u","g","i","n">>,
       <<"e","c","o","m","m","e","r","c","e">> >>

KW_Transformers ==
    << <<"d","i","g","i","t","a","l"," ","t","r","a","n","s","f","o","r","m","a","t","i","o","n">>,
       <<"m","o","d","e","r","n","i","z","e">>,
       <<"l","e","g","a","c","y"," ","s","y","s","t","e","m","s">>,
       <<"c","h","a","n","g","e"," ","m","a","n","a","g","e","m","e","n","t">>,
       <<"i","n","s","u","r","a","n","c","e"," ","t","r","a","n","s","f","o","r","m","a","t","i","o","n">>,
       <<"t","e","c","h"," ","a","d","v","i","s","o","r","y">>,
       <<"i","m","p","l","e","m","e","n","t","a","t","i","o","n"," ","p","a","r","t","n","e","r">>,
       <<"c","o","r","e"," ","r","e","p","l","a","c","e","m","e","n","t">>,
       <<"d","i","g","i","t","i","z","a","t","i","o","n"," ","s","t","r","a","t","e","g","y">>,
       <<"i","t"," ","c","o","n","s","u","l","t","i","n","g">> >>

ArchetypeOrder ==
    <<"Enablers", "Connectors", "Innovators", "Disruptors", "Protectors",
      "Integrators", "Transformers">>

ARCHETYPES ==
    [Enablers |-> KW_Enablers, Connectors |-> KW_Connectors,
     Innovators |-> KW_Innovators, Disruptors |-> KW_Disruptors,
     Protectors |-> KW_Protectors, Integrators |-> KW_Integrators,
     Transformers |-> KW_Transformers]

EmptyMap == [a \in {} |-> 0]

----------------------------------------------------------------------------
(* classify_description *)

HIGH_SCORE == 3
MEDIUM_SCORE == 1

Triple(a, c, e) == [archetype |-> a, confidence |-> c, evidence |-> e]

\* count = 0 at the head of each archetype's keyword loop
CountStart_Carry(a) == IF a \in DOMAIN scores THEN scores[a] ELSE 0
CountStart(a) == 0

\* the inner loop over one archetype's keywords, from keyword k on
RECURSIVE ScanKeywords(_, _, _, _, _)
ScanKeywords(kws, k, text_lower, count, found) ==
    IF k > Len(kws) THEN [count |-> count, found |-> found]
    ELSE IF Contains(lower(kws[k]), text_lower)
    THEN LET matches == StrCount(lower(kws[k]), text_lower)
         IN ScanKeywords(kws, k + 1, text_lower, count + matches,
                         IF matches > 0 THEN Append(found, kws[k]) ELSE found)
    ELSE ScanKeywords(kws, k + 1, text_lower, count, found)

\* the outer loop: scores and keywords_found_map
ScoreAll(table, text_lower) ==
    [a \in DOMAIN table |-> ScanKeywords(table[a], 1, text_lower, CountStart(a), <<>>)]

\* place archetype a behind every entry whose score is not lower than its own
InsertByScore_Unstable(sorted, a, sc) ==
    LET ahead == {i \in 1..Len(sorted) : sc[sorted[i]] > sc[a]}
        n == Cardinality(ahead)
    IN SubSeq(sorted, 1, n) \o <<a>> \o SubSeq(sorted, n + 1, Len(sorted))
InsertByScore(sorted, a, sc) ==
    LET ahead == {i \in 1..Len(sorted) : sc[sorted[i]] >= sc[a]}
        n == Cardinality(ahead)
    IN SubSeq(sorted, 1, n) \o <<a>> \o SubSeq(sorted, n + 1, Len(sorted))

RECURSIVE SortFrom(_, _, _)
SortFrom(sorted, k, sc) ==
    IF k > Len(ArchetypeOrder) THEN sorted
    ELSE SortFrom(InsertByScore(sorted, ArchetypeOrder[k], sc), k + 1, sc)

\* sorted(scores.items(), key=score, reverse=True): stable, so equal scores keep
\* the table's order
sorted_scores(sc) == SortFrom(<<>>, 1, sc)

\* the rescue pass for generic companies
generic_keywords ==
    << <<"i","n","s","u","r","a","n","c","e">>,
       <<"a","g","e","n","c","y">>,
       <<"b","r","o","k","e","r","a","g","e">>,
       <<"s","e","r","v","i","c","e","s">>,
       <<"l","t","d">>,
       <<"i","n","c">>,
       <<"g","r","o","u","p">>,
       <<"s","o","l","u","t","i","o","n","s">> >>

found_generics_CaseSensitive(text_lower) ==
    SelectSeq(generic_keywords, LAMBDA w : Contains(w, text.s))
found_generics(text_lower) ==
    SelectSeq(generic_keywords, LAMBDA w : Contains(w, text_lower))

\* confidence from the best score, without the "Medium" band
Confidence_NoMedium(best_score) ==
    IF best_score >= HIGH_SCORE THEN "High" ELSE "Low"
\* confidence from the best score
Confidence_Off(best_score) ==
    IF best_score > HIGH_SCORE THEN "High"
    ELSE IF best_score >= MEDIUM_SCORE THEN "Medium"
    ELSE "Low"
Confidence(best_score) ==
    IF best_score >= HIGH_SCORE THEN "High"
    ELSE IF best_score >= MEDIUM_SCORE THEN "Medium"
    ELSE "Low"

Unclassified == Triple("Unclassified", "Low", <<>>)

\* the frame of a call that returned before the scoring loop
EarlyReturn(words) ==
    [total_words |-> words, scores |-> EmptyMap, keywords_found_map |-> EmptyMap,
     ret |-> Unclassified]

\* winner selection, from the sorted scores on
Decide(sc, found, text_lower) ==
    LET ranked == sorted_scores(sc)
        best_archetype == ranked[1]
        best_score == sc[best_archetype]
        second_archetype == ranked[2]
    IN  IF best_score = 0
        THEN IF found_generics(text_lower) # <<>>
             THEN Triple("Traditional / Generalist", "Low",
                         Join(CommaSpace, found_generics(text_lower)))
             ELSE Unclassified
        ELSE IF Len(ranked) > 1 /\ sc[second_archetype] = best_score /\ best_score > 0
        THEN Triple("Hybrid", "Medium",
                    Join(CommaSpace, found[best_archetype] \o found[second_archetype]))
        ELSE Triple(best_archetype, Confidence(best_score),
                    Join(CommaSpace, found[best_archetype]))

\* the whole function: its locals and its return value
classify_description(v, table) ==
    IF ~isinstance_str(v) THEN EarlyReturn(-1)
    ELSE LET text_lower == lower(v.s)
             words == CountWords(text_lower)
         IN IF words = 0 THEN EarlyReturn(0)
            ELSE LET all == ScoreAll(table, text_lower)
                     sc == [a \in DOMAIN all |-> all[a].count]
                     found == [a \in DOMAIN all |-> all[a].found]
                 IN [total_words |-> words, scores |-> sc,
                     keywords_found_map |-> found,
                     ret |-> Decide(sc, found, text_lower)]

----------------------------------------------------------------------------
(* Inputs *)

Vocabulary ==
    { <<"p","l","a","t","f","o","r","m">>, <<"b","2","b","2","c">>, <<"A","g","e","n","c","y">>, <<"i","n","s","u","r","a","n","c","e">>, <<"A","I","-","d","r","i","v","e","n">>,
      <<"p","2","p">>, <<"a","c","m","e">>, <<"!","?">> }

Phrases == UNION {[1..n -> Vocabulary] : n \in 0..MaxWords}

ScenarioTexts ==
    { <<"W","e"," ","a","r","e"," ","a","n"," ","A","I","-","d","r","i","v","e","n"," ","a","u","t","o","m","a","t","i","o","n"," ","p","l","a","t","f","o","r","m"," ","w","i","t","h"," ","m","a","c","h","i","n","e"," ","l","e","a","r","n","i","n","g"," ","f","o","r"," ","c","l","a","i","m","s">>,
      <<"a","u","t","o","m","a","t","i","o","n"," ","a","i","-","d","r","i","v","e","n"," ","m","a","c","h","i","n","e"," ","l","e","a","r","n","i","n","g"," ","c","l","o","u","d">>,
      <<"A","c","m","e"," ","I","n","s","u","r","a","n","c","e"," ","A","g","e","n","c","y"," ","L","t","d">>,
      <<"A","c","m","e"," ","I","n","s","u","r","a","n","c","e"," ","S","e","r","v","i","c","e","s"," ","L","t","d">>,
      <<"l","t","d"," ","s","e","r","v","i","c","e","s"," ","i","n","s","u","r","a","n","c","e">>,
      <<"i","n","s","u","r","a","n","c","e">>, <<"a","g","e","n","c","y">>, <<"b","r","o","k","e","r","a","g","e">>, <<"s","e","r","v","i","c","e","s">>, <<"l","t","d">>, <<"i","n","c">>,
      <<"g","r","o","u","p">>, <<"s","o","l","u","t","i","o","n","s">>,
      <<"s","i","n","c","e"," ","1","9","9","9">>,
      <<"b","2","b","2","b">>, <<"a","p","i","-","f","i","r","s","t">>, <<"a","p","i","-","f","i","r","s","t"," ","a","n","d"," ","a","p","i","-","f","i","r","s","t">>,
      <<"c","o","r","e"," ","r","e","p","l","a","c","e","m","e","n","t"," ","c","o","r","e"," ","r","e","p","l","a","c","e","m","e","n","t">>,
      <<"i","m","p","l","e","m","e","n","t","a","t","i","o","n"," ","p","a","r","t","n","e","r",","," ","i","m","p","l","e","m","e","n","t","a","t","i","o","n"," ","p","a","r","t","n","e","r">>, <<"c","o","r","e"," ","r","e","p","l","a","c","e","m","e","n","t">>, <<"i","m","p","l","e","m","e","n","t","a","t","i","o","n"," ","p","a","r","t","n","e","r">>,
      <<"u","n","d","e","r","w","r","i","t","i","n","g"," ","p","l","a","t","f","o","r","m">>,
      <<" ">>, <<".",".",".">>, <<"_">>, <<"-"," ","-">> }

StrInputs == {PyStr(Join(Space, p)) : p \in Phrases} \cup {PyStr(s) : s \in ScenarioTexts}
NonStrInputs == {PyNone, PyNaN, PyInt(42)}
Inputs == StrInputs \cup NonStrInputs

----------------------------------------------------------------------------------------------------------------------------------------
(* classify_with_openai: the function body, and the retry decorator around it *)

STOP_AFTER_ATTEMPT == 3
DESCRIPTION_LIMIT == 500
JUSTIFICATION_LIMIT == 200
ERROR_LIMIT == 80

\* s[:n], without the limit
Take_All(s, n) == s
\* s[:n]
Take(s, n) == SubSeq(s, 1, IF Len(s) < n THEN Len(s) ELSE n)

Six(a, c, e, sec, dcs, wave) ==
    [archetype |-> a, confidence |-> c, evidence |-> e,
     secondary_archetypes |-> sec, driving_capabilities |-> dcs,
     innovation_wave |-> wave]

\* what is in row_ret when nothing was returned
NoResult == Six("", "", <<>>, <<>>, <<>>, <<>>)

\* What the environment does to one attempt:
\*   "print_error"  the print of line 43 raises (a console that cannot encode it)
\*   "client_error" OpenAI(api_key=...) raises when the client is constructed
\*   "timeout"      chat.completions.create raises
\*   "network_error" chat.completions.create raises a connection error
\*   "no_choices"   the response object has an empty choices list (line 83)
\*   "null_content" the content of the message is None (line 84)
\*   "bad_json"     the response content is not JSON
\*   "not_object"   the response content is the JSON array []
\*   "ok_full"      a response with every field
\*   "ok_empty"     the response {}
\*   "ok_nulls"     a response with archetype and confidence null
\*   "ok_null_justification"  a response with justification null
\*   "ok_other"     a response whose fields have other types than asked for
Outcomes ==
    {"print_error", "client_error", "timeout", "network_error", "no_choices",
     "null_content", "bad_json", "not_object", "ok_full", "ok_empty", "ok_nulls",
     "ok_null_justification", "ok_other"}

\* str(e) of the exceptions
ErrorMessage ==
    [client_error |-> <<"T","h","e"," ","a","p","i","_","k","e","y"," ","c","l","i","e","n","t"," ","o","p","t","i","o","n"," ","m","u","s","t"," ","b","e"," ","s","e","t">>,
     timeout |-> <<"R","e","q","u","e","s","t"," ","t","i","m","e","d"," ","o","u","t",".">>,
     network_error |-> <<"H","T","T","P","S","C","o","n","n","e","c","t","i","o","n","P","o","o","l","(","h","o","s","t","=","'","a","p","i",".","o","p","e","n","a","i",".","c","o","m","'",","," ","p","o","r","t","=","4","4","3",")",":"," ","M","a","x"," ","r","e","t","r","i","e","s"," ","e","x","c","e","e","d","e","d"," ","w","i","t","h"," ","u","r","l",":"," ","/","v","1","/","c","h","a","t","/","c","o","m","p","l","e","t","i","o","n","s">>,
     no_choices |-> <<"l","i","s","t"," ","i","n","d","e","x"," ","o","u","t"," ","o","f"," ","r","a","n","g","e">>,
     null_content |-> <<"t","h","e"," ","J","S","O","N"," ","o","b","j","e","c","t"," ","m","u","s","t"," ","b","e"," ","s","t","r",","," ","b","y","t","e","s"," ","o","r"," ","b","y","t","e","a","r","r","a","y",","," ","n","o","t"," ","N","o","n","e","T","y","p","e">>,
     not_object |-> <<"'","l","i","s","t","'"," ","o","b","j","e","c","t"," ","h","a","s"," ","n","o"," ","a","t","t","r","i","b","u","t","e"," ","'","g","e","t","'">>,
     none_len |-> <<"o","b","j","e","c","t"," ","o","f"," ","t","y","p","e"," ","'","N","o","n","e","T","y","p","e","'"," ","h","a","s"," ","n","o"," ","l","e","n","(",")">>,
     int_len |-> <<"o","b","j","e","c","t"," ","o","f"," ","t","y","p","e"," ","'","i","n","t","'"," ","h","a","s"," ","n","o"," ","l","e","n","(",")">>,
     list_concat |-> <<"c","a","n"," ","o","n","l","y"," ","c","o","n","c","a","t","e","n","a","t","e"," ","l","i","s","t"," ","(","n","o","t"," ">> \o <<"\"">> \o <<"s","t","r">>
                     \o <<"\"">> \o <<")"," ","t","o"," ","l","i","s","t">>]

\* A value of the parsed response: its Python type in kind ("str", "list",
\* "none", "int") and its content in v; the v of None and of a number is how
\* the value prints.
JStr(s) == [kind |-> "str", v |-> s]
JList(l) == [kind |-> "list", v |-> l]
JNone(printed) == [kind |-> "none", v |-> printed]
JInt(printed) == [kind |-> "int", v |-> printed]

Payload ==
    [ok_full |-> [archetype |-> JStr("Enablers"),
                  secondary_archetypes |-> JList(<<<<"C","o","n","n","e","c","t","o","r","s">>>>),
                  driving_capabilities |-> JList(<<<<"D","C","1">>, <<"D","C","2">>>>),
                  innovation_wave |-> JStr(<<"2",".","0">>),
                  justification |-> JStr(<<"B","2","B"," ","S","a","a","S"," ","p","l","a","t","f","o","r","m">>),
                  confidence |-> JStr("High")],
     ok_empty |-> EmptyMap,
     ok_nulls |-> [archetype |-> JNone("None"),
                   confidence |-> JNone("None"),
                   justification |-> JStr(<<"n","o"," ","c","l","e","a","r"," ","t","h","e","s","i","s">>)],
     ok_null_justification |-> [archetype |-> JStr("Enablers"),
                                justification |-> JNone(<<>>),
                                confidence |-> JStr("High")],
     ok_other |-> [archetype |-> JStr("Disruptors"),
                   secondary_archetypes |-> JStr(<<"C","o","n","n","e","c","t","o","r","s">>),
                   driving_capabilities |-> JInt(<<"3">>),
                   innovation_wave |-> JStr(<<"2",".","0">>),
                   justification |-> JList(<<<<"f","u","l","l","-","s","t","a","c","k">>, <<"c","a","r","r","i","e","r">>>>),
                   confidence |-> JStr("Very High")]]

\* result.get(key, default)
Get(result, key, default) == IF key \in DOMAIN result THEN result[key] ELSE default

\* lines 87-92: the six values read from the parsed response, with their defaults
Fields(result) ==
    Six(Get(result, "archetype", JStr("Unclassified")),
        Get(result, "confidence", JStr("Medium")),
        Get(result, "justification", JStr(<<>>)),
        Get(result, "secondary_archetypes", JList(<<>>)),
        Get(result, "driving_capabilities", JList(<<>>)),
        Get(result, "innovation_wave", JStr(<<>>)))

\* line 97: what len(justification) or the concatenation raises, "" if nothing
DisplayError(justification) ==
    IF justification.kind = "none" THEN "none_len"
    ELSE IF justification.kind = "int" THEN "int_len"
    ELSE IF justification.kind = "list" /\ Len(justification.v) > JUSTIFICATION_LIMIT
    THEN "list_concat"
    ELSE ""

\* lines 97-106: the tuple returned for the parsed response
Extract(result) ==
    LET f == Fields(result)
        justification == f.evidence.v
        keywords_display ==
            IF Len(justification) > JUSTIFICATION_LIMIT
            THEN Take(justification, JUSTIFICATION_LIMIT) \o <<".",".",".">>
            ELSE justification
    IN  Six(f.archetype.v, f.confidence.v, keywords_display,
            f.secondary_archetypes.v, f.driving_capabilities.v, f.innovation_wave.v)

\* the Python types of the values of that tuple
ExtractTypes(result) ==
    LET f == Fields(result)
    IN  Six(f.archetype.kind, f.confidence.kind, f.evidence.kind,
            f.secondary_archetypes.kind, f.driving_capabilities.kind,
            f.innovation_wave.kind)

\* the types of (arch, conf, kw, [], "", ""): lines 110 and 116, and lines 183
\* and 188 of classify_insurtech.py
PlainTypes == Six("str", "str", "str", "list", "str", "str")

\* the types of a tuple that was not returned
NoTypes == Six("", "", "", "", "", "")

\* lines 112-116, with the whole of str(e)
ApiError_Untruncated(message) ==
    Six("API Error", "Low", <<"E","r","r","o","r",":"," ">> \o message, <<>>, <<>>, <<>>)
\* lines 112-116
ApiError(message) ==
    Six("API Error", "Low", <<"E","r","r","o","r",":"," ">> \o Take(message, ERROR_LIMIT), <<>>, <<>>, <<>>)

\* lines 108-110
JsonError == Six("API Error - JSON", "Low", <<"J","S","O","N"," ","p","a","r","s","e"," ","e","r","r","o","r">>, <<>>, <<>>, <<>>)

ReturnsTyped(value, types, ev, cl, req) ==
    [kind |-> "return", value |-> value, types |-> types, events |-> ev,
     client |-> cl, request |-> req]

Returns(value, ev, cl, req) == ReturnsTyped(value, PlainTypes, ev, cl, req)

Raises(ev, cl, req) ==
    [kind |-> "raise", value |-> NoResult, types |-> NoTypes, events |-> ev,
     client |-> cl, request |-> req]

\* lines 112-116, with the exception raised again
Handled_Reraise(message, ev, cl, req) == Raises(ev, cl, req)
\* lines 112-116: except Exception returns the "API Error" result
Handled(message, ev, cl, req) == Returns(ApiError(message), ev, cl, req)

\* lines 83-106 for a response that carries a JSON object
Parsed(result, ev, cl, req) ==
    LET error == DisplayError(Fields(result).evidence)
    IN  IF error # ""
        THEN Handled(ErrorMessage[error], ev, cl, req)
        ELSE ReturnsTyped(Extract(result), ExtractTypes(result), ev, cl, req)

\* lines 43-46, without the sleep
Preamble_NoDelay == <<"enter">>
\* lines 43-46: the print and time.sleep(config.RATE_LIMIT_DELAY)
Preamble == <<"enter", "rate_limit_delay">>

\* One run of the function body (lines 41-116) with the client in state cl.
\* Events: "enter" (the body starts), "rate_limit_delay" (line 46), "api_call"
\* (line 63).
Body(outcome, cl, description) ==
    IF outcome = "print_error" THEN Raises(<<"enter">>, cl, <<>>)
    ELSE LET req == Take(description, DESCRIPTION_LIMIT)
             before == Preamble
         IN  IF cl = "none" /\ outcome = "client_error"
             THEN Handled(ErrorMessage.client_error, before, cl, req)
             ELSE LET ev == before \o <<"api_call">>
                  IN  IF outcome \in {"timeout", "client_error"}
                      THEN Handled(ErrorMessage.timeout, ev, "constructed", req)
                      ELSE IF outcome \in {"network_error", "no_choices",
                                           "null_content", "not_object"}
                      THEN Handled(ErrorMessage[outcome], ev, "constructed", req)
                      ELSE IF outcome = "bad_json"
                      THEN Returns(JsonError, ev, "constructed", req)
                      ELSE Parsed(Payload[outcome], ev, "constructed", req)

\* @retry(stop=stop_after_attempt(3), wait=wait_exponential(...),
\*        retry=retry_if_exception_type((Exception,))), from attempt n on:
\* a body that returns ends the call, a body that raises is run again after
\* the backoff wait, and after the last attempt RetryError is raised
RECURSIVE Retrying(_, _, _, _, _)
Retrying(n, outs, cl, description, ev) ==
    LET r == Body(outs[n], cl, description)
    IN  IF r.kind = "return"
        THEN ReturnsTyped(r.value, r.types, ev \o r.events, r.client, r.request)
        ELSE IF n >= STOP_AFTER_ATTEMPT
        THEN Raises(ev \o r.events, r.client, r.request)
        ELSE Retrying(n + 1, outs, r.client, description,
                      ev \o r.events \o <<"backoff">>)

classify_with_openai(outs, cl, description) == Retrying(1, outs, cl, description, <<>>)

----------------------------------------------------------------------------
(* classify_company_row *)

Absent == [kind |-> "absent", s |-> <<>>, n |-> 0]

\* pd.notna(v)
notna(v) == v.kind \notin {"none", "nan"}

DigitChars == <<"0", "1", "2", "3", "4", "5", "6", "7", "8", "9">>

RECURSIVE Digits(_)
Digits(n) ==
    IF n < 10 THEN <<DigitChars[n + 1]>>
    ELSE Digits(n \div 10) \o <<DigitChars[(n % 10) + 1]>>

\* str(v), for a string or a non-negative int
str(v) == IF v.kind = "str" THEN v.s ELSE Digits(v.n)

aux_cols == <<"Industries", "Industry Groups", "Full Description", "Description">>

\* lines 138-140
MainPart(r, main) ==
    IF main \in DOMAIN r /\ notna(r[main]) THEN <<str(r[main])>> ELSE <<>>

\* the test of lines 146-148, without the comparison to the designated column
AuxQualifies_NoDedup(r, main, col) ==
    col \in DOMAIN r /\ notna(r[col])
\* the test of lines 146-148
AuxQualifies(r, main, col) ==
    col \in DOMAIN r /\ col # main /\ notna(r[col])

\* lines 145-149, from auxiliary column k on
RECURSIVE AuxParts(_, _, _)
AuxParts(r, main, k) ==
    IF k > Len(aux_cols) THEN <<>>
    ELSE (IF AuxQualifies(r, main, aux_cols[k]) THEN <<str(r[aux_cols[k]])>> ELSE <<>>)
         \o AuxParts(r, main, k + 1)

\* lines 138-151
CombinedText(r, main) == Join(Space, MainPart(r, main) \o AuxParts(r, main, 1))

\* line 169, reading only the use_ai flag
UseRemote_IgnoreAvailable(ai, available) == ai
\* line 169
UseRemote(ai, available) == ai /\ available

\* line 179, catching only the errors of the remote service
Caught_OnlyApiErrors(exc) == exc \in {"APIError", "APITimeoutError"}
\* line 179: except Exception
Caught(exc) == exc \in {"RetryError", "APIError", "APITimeoutError"}

\* lines 182-183 and 186-188
KeywordResult(frame) ==
    Six(frame.ret.archetype, frame.ret.confidence, frame.ret.evidence, <<>>, <<>>, <<>>)

RowResult(combined, how, a, frame, value, types, raised) ==
    [combined_text |-> combined, adapter |-> how, events |-> a.events,
     client |-> a.client, request |-> a.request, frame |-> frame,
     value |-> value, types |-> types, raised |-> raised]

\* the frame of a classify_description that was not called
NoFrame == [total_words |-> -1, scores |-> EmptyMap, keywords_found_map |-> EmptyMap,
            ret |-> Triple("", "", <<>>)]

\* lines 182-183 and 186-188: classify_description(combined_text)
ByKeywords(combined, how, a) ==
    CHOOSE r \in {RowResult(combined, how, a, frame, KeywordResult(frame), PlainTypes, FALSE) :
                    frame \in {classify_description(PyStr(combined), ARCHETYPES)}} : TRUE

\* lines 169-188 for the assembled text
Dispatch(combined, ai, available, cl, outs) ==
    IF UseRemote(ai, available)
    THEN CHOOSE r \in
            {IF a.kind = "return"
             THEN RowResult(combined, "returned", a, NoFrame, a.value, a.types, FALSE)
             ELSE IF Caught("RetryError")
             THEN ByKeywords(combined, "raised", a)
             ELSE RowResult(combined, "raised", a, NoFrame, NoResult, NoTypes, TRUE) :
                a \in {classify_with_openai(outs, cl, combined)}} : TRUE
    ELSE ByKeywords(combined, "not_called",
                    [events |-> <<>>, client |-> cl, request |-> <<>>])

\* The whole function: what it returns, what the adapter did, and the frame of
\* the classify_description call it made (NoFrame when it made none).
classify_company_row(r, main, ai, available, cl, outs) ==
    Dispatch(CombinedText(r, main), ai, available, cl, outs)

----------------------------------------------------------------------------
(* The batch runners: main of app.py (lines 173-308) and run_analysis of     *)
(* app_redesign.py (lines 48-162)                                            *)

CHECKPOINT_FREQUENCY == 5
PROCESSING_ERROR_LIMIT == 100
\* 0.0002, in units of 0.0001
COST_PER_ROW == 2
CORRECTION_YEAR == 2010
\* the year of a number read as nanoseconds since the epoch
EPOCH_YEAR == 1970

\* the columns the user designated
col_name == "Organization Name"
col_desc == "Description"

ColumnText ==
    [c \in {"Organization Name", "Description", "Founded Year", "Launch Date",
            "YEAR FOUNDED"} |->
        CASE c = "Organization Name" -> <<"O","r","g","a","n","i","z","a","t","i","o","n"," ","N","a","m","e">>
          [] c = "Description" -> <<"D","e","s","c","r","i","p","t","i","o","n">>
          [] c = "Founded Year" -> <<"F","o","u","n","d","e","d"," ","Y","e","a","r">>
          [] c = "Launch Date" -> <<"L","a","u","n","c","h"," ","D","a","t","e">>
          [] c = "YEAR FOUNDED" -> <<"Y","E","A","R"," ","F","O","U","N","D","E","D">>]

\* str(e) of what the runners catch
JoinErrorText == <<"c","a","n"," ","o","n","l","y"," ","j","o","i","n"," ","a","n"," ","i","t","e","r","a","b","l","e">>
ProgressErrorText == <<"P","r","o","g","r","e","s","s"," ","V","a","l","u","e"," ","h","a","s"," ","i","n","v","a","l","i","d"," ","v","a","l","u","e"," ","[","0",".","0",","," ","1",".","0","]">>
WriteErrorText == <<"[","E","r","r","n","o"," ","1","3","]"," ","P","e","r","m","i","s","s","i","o","n"," ","d","e","n","i","e","d",":"," ","'","p","r","o","g","r","e","s","s","_","b","a","c","k","u","p",".","c","s","v","'">>

\* one dict of the results list
Entry(arch, conf, kw, sec, dcs, wave) ==
    [Predicted_Archetype |-> arch, Confidence_Score |-> conf, Keywords_Found |-> kw,
     Secondary_Archetypes |-> sec, Driving_Capabilities |-> dcs,
     Innovation_Wave |-> wave]

\* app.py lines 260-267, app_redesign.py lines 135-142
ProcessingError(message) ==
    Entry("Processing Error", "Low", Take(message, PROCESSING_ERROR_LIMIT),
          <<>>, <<>>, <<>>)

\* "if x" for a value x of the given type
Truthy(v, type) ==
    IF type \in {"list", "str"} THEN v # <<>>
    ELSE IF type = "int" THEN v # <<"0">>
    ELSE FALSE

\* ", ".join(x) raises TypeError for an x that is not iterable
JoinRaises(v, type) == Truthy(v, type) /\ type \notin {"list", "str"}

\* ", ".join(x) if x else "": a list is joined item by item, a str character
\* by character
Joined(v, type) ==
    IF ~Truthy(v, type) THEN <<>>
    ELSE IF type = "list" THEN Join(CommaSpace, v)
    ELSE Join(CommaSpace, [i \in 1..Len(v) |-> <<v[i]>>])

\* app.py lines 216-227, app_redesign.py lines 77-89: the row is classified and
\* its dict is built, or one of the two raises
Classified(cells, outcome, ai, available, cl) ==
    CHOOSE c \in
        {IF r.raised
         THEN [kind |-> "raise", message |-> <<"R","e","t","r","y","E","r","r","o","r">>, client |-> r.client,
               adapter |-> r.adapter, entry |-> ProcessingError(<<>>)]
         ELSE IF \/ JoinRaises(r.value.secondary_archetypes, r.types.secondary_archetypes)
                 \/ JoinRaises(r.value.driving_capabilities, r.types.driving_capabilities)
         THEN [kind |-> "raise", message |-> JoinErrorText, client |-> r.client,
               adapter |-> r.adapter, entry |-> ProcessingError(<<>>)]
         ELSE [kind |-> "entry", message |-> <<>>, client |-> r.client,
               adapter |-> r.adapter,
               entry |-> Entry(r.value.archetype, r.value.confidence, r.value.evidence,
                               Joined(r.value.secondary_archetypes,
                                      r.types.secondary_archetypes),
                               Joined(r.value.driving_capabilities,
                                      r.types.driving_capabilities),
                               r.value.innovation_wave)] :
            r \in {classify_company_row(cells, col_desc, ai, available, cl,
                                        [n \in 1..STOP_AFTER_ATTEMPT |-> outcome])}} : TRUE

\* app.py lines 231-232, app_redesign.py lines 93-94
Charged(ai, arch) ==
    ai /\ arch \notin {"API Error", "Unclassified", "Processing Error"}

\* st.progress(value) raises StreamlitAPIException for a value above 1.0
ProgressRaises(n, total) == n > total

\* the checkpoint file
NoFile == [exists |-> FALSE, results |-> <<>>]
File(res) == [exists |-> TRUE, results |-> res]

\* len(results) % CHECKPOINT_FREQUENCY == 0 and len(results) > 0
CheckpointDue(res) == Len(res) % CHECKPOINT_FREQUENCY = 0 /\ Len(res) > 0

Logged(op, n) == [op |-> op, n |-> n]

\* what one pass of the loop leaves behind
Pass(res, cost, file, cl, log, failed, aborted) ==
    [results |-> res, actual_cost |-> cost, checkpoint_file |-> file, client |-> cl,
     log |-> log, write_failed |-> failed, aborted |-> aborted]

\* app.py lines 210-278: one pass of the loop of main, c being what lines
\* 216-227 came to; write_fails: df.to_csv would raise
MainPass(c, total, ai, res, cost, file, write_fails) ==
    LET appended == IF c.kind = "entry" THEN Append(res, c.entry) ELSE res
        charged == c.kind = "entry" /\ Charged(ai, c.entry.Predicted_Archetype)
        \* line 256
        late == c.kind = "entry" /\ ProgressRaises(Len(appended), total)
        after_try ==
            IF c.kind = "raise" THEN Append(appended, ProcessingError(c.message))
            ELSE IF late THEN Append(appended, ProcessingError(ProgressErrorText))
            ELSE appended
        due == CheckpointDue(after_try)
        written == due /\ ~write_fails
    IN  Pass(after_try,
             IF charged THEN cost + COST_PER_ROW ELSE cost,
             IF written THEN File(after_try) ELSE file,
             c.client,
             IF due
             THEN <<Logged(IF write_fails THEN "write_failed" ELSE "write",
                           Len(after_try))>>
             ELSE <<>>,
             due /\ write_fails,
             \* line 278
             ProgressRaises(Len(after_try), total))

\* app_redesign.py lines 70-143: one pass of the loop of run_analysis over the
\* row with the given cells, c being what lines 77-89 came to
AnalysisPass(cells, c, total, ai, cl, res, cost, file, write_fails) ==
    LET company_name == IF col_name \in DOMAIN cells THEN cells[col_name]
                        ELSE PyStr(<<"U","n","k","n","o","w","n">>)
    IN  \* line 73: company_name[:50], outside the try block
        IF ~isinstance_str(company_name)
        THEN Pass(res, cost, file, cl, <<>>, FALSE, TRUE)
        ELSE
        LET appended == IF c.kind = "entry" THEN Append(res, c.entry) ELSE res
            charged == c.kind = "entry" /\ Charged(ai, c.entry.Predicted_Archetype)
            \* line 108
            late == c.kind = "entry" /\ ProgressRaises(Len(appended), total)
            \* line 127
            due == c.kind = "entry" /\ ~late
                   /\ Len(appended) % CHECKPOINT_FREQUENCY = 0
            message == IF c.kind = "raise" THEN c.message
                       ELSE IF late THEN ProgressErrorText
                       ELSE WriteErrorText
            after_try ==
                IF c.kind = "raise" \/ late \/ (due /\ write_fails)
                THEN Append(appended, ProcessingError(message))
                ELSE appended
        IN  Pass(after_try,
                 IF charged THEN cost + COST_PER_ROW ELSE cost,
                 IF due /\ ~write_fails THEN File(appended) ELSE file,
                 c.client,
                 IF due
                 THEN <<Logged(IF write_fails THEN "write_failed" ELSE "write",
                               Len(appended))>>
                 ELSE <<>>,
                 due /\ write_fails,
                 FALSE)

\* app.py line 82
candidates == <<<<"f","o","u","n","d","e","d">>, <<"f","o","u","n","d","i","n","g">>, <<"y","e","a","r">>, <<"e","s","t","a","b","l","i","s","h","m","e","n","t">>, <<"l","a","u","n","c","h">>>>

\* app.py line 86
IsFoundingColumn(col) ==
    \E k \in 1..Len(candidates) : Contains(candidates[k], lower(ColumnText[col]))

\* app.py lines 84-91: the first column that matches, "" if none does
RECURSIVE FirstMatch(_, _)
FirstMatch(cols, k) ==
    IF k > Len(cols) THEN ""
    ELSE IF IsFoundingColumn(cols[k]) THEN cols[k]
    ELSE FirstMatch(cols, k + 1)

IsDigits(s) ==
    s # <<>> /\ \A i \in 1..Len(s) : \E d \in 1..Len(DigitChars) : DigitChars[d] = s[i]

DigitValue(ch) == (CHOOSE d \in 1..Len(DigitChars) : DigitChars[d] = ch) - 1

RECURSIVE ParseInt(_)
ParseInt(s) ==
    IF s = <<>> THEN 0
    ELSE 10 * ParseInt(SubSeq(s, 1, Len(s) - 1)) + DigitValue(s[Len(s)])

\* pd.to_numeric(..., errors='coerce') on one cell
to_numeric(v) ==
    IF v.kind = "int" THEN v
    ELSE IF v.kind = "str" /\ IsDigits(v.s) THEN PyInt(ParseInt(v.s))
    ELSE PyNaN

\* a text that starts with a four-digit year: "2005" or "2005-03-01"
IsDate(s) ==
    /\ Len(s) >= 4
    /\ IsDigits(SubSeq(s, 1, 4))
    /\ Len(s) > 4 => s[5] = "-"

\* pd.to_datetime(..., errors='coerce').dt.year on one cell: a number is taken
\* as nanoseconds since the epoch
to_datetime_year(v) ==
    IF v.kind = "int" THEN PyInt(EPOCH_YEAR)
    ELSE IF v.kind = "str" /\ IsDate(v.s) THEN PyInt(ParseInt(SubSeq(v.s, 1, 4)))
    ELSE PyNaN

\* app.py lines 80-102: (matched_col, years), matched_col "" for None
parse_founding_year(rows, cols) ==
    LET matched_col == FirstMatch(cols, 1)
    IN  IF matched_col = "" THEN [matched_col |-> "", years |-> <<>>]
        ELSE LET years == [i \in 1..Len(rows) |-> to_numeric(rows[i][matched_col])]
                 valid == Cardinality({i \in 1..Len(rows) : notna(years[i])})
             IN  [matched_col |-> matched_col,
                  years |-> IF valid * 10 < Len(rows) * 3
                            THEN [i \in 1..Len(rows) |->
                                    to_datetime_year(rows[i][matched_col])]
                            ELSE years]

\* the six columns of pd.DataFrame(results)
ResultColumns ==
    <<"Predicted_Archetype", "Confidence_Score", "Keywords_Found",
      "Secondary_Archetypes", "Driving_Capabilities", "Innovation_Wave">>

\* a row of results_df that the results list does not reach
NaNEntry == Entry("nan", "nan", <<"n","a","n">>, <<"n","a","n">>, <<"n","a","n">>, <<"n","a","n">>)

\* a row of the final table: the cells of the input row (EmptyMap past the
\* end of df), the six result columns, Founded_Year and Age_Corrected
\* ("True", or "nan" where it was not set)
FinalRow(input, entry, year, flag) ==
    [input |-> input, result |-> entry, Founded_Year |-> year, Age_Corrected |-> flag]

NoTable == [stored |-> FALSE, columns |-> <<>>, rows |-> <<>>]

Longer(a, b) == IF Len(a) > Len(b) THEN Len(a) ELSE Len(b)

\* results_df['Founded_Year'] = year_series: aligned on the index
YearAt(years, k) == IF k <= Len(years) THEN years[k] ELSE PyNaN

\* app.py line 291, with no test of the year
mask_AnyYear(res, years, k) ==
    res[k].Predicted_Archetype \in {"Disruptors", "Innovators"}
\* app.py line 291
mask(res, years, k) ==
    /\ res[k].Predicted_Archetype \in {"Disruptors", "Innovators"}
    /\ YearAt(years, k).kind = "int"
    /\ YearAt(years, k).n < CORRECTION_YEAR

\* app.py lines 290-297, with the confidence of a corrected row set to "Low"
Reclassified_LowConfidence(p, hit, rows, cols, res) ==
    LET found == p.matched_col # ""
    IN  [reclassified_count |-> Cardinality(hit),
         table |->
            [stored |-> TRUE,
             columns |-> cols \o ResultColumns
                         \o (IF found THEN <<"Founded_Year">> ELSE <<>>)
                         \o (IF hit # {} THEN <<"Age_Corrected">> ELSE <<>>),
             rows |-> [k \in 1..Longer(rows, res) |->
                        FinalRow(IF k <= Len(rows) THEN rows[k] ELSE EmptyMap,
                                 IF k > Len(res) THEN NaNEntry
                                 ELSE IF k \in hit
                                 THEN [res[k] EXCEPT !.Predicted_Archetype =
                                                        "Traditional / Generalist",
                                                    !.Confidence_Score = "Low"]
                                 ELSE res[k],
                                 IF found THEN YearAt(p.years, k) ELSE PyNaN,
                                 IF k \in hit THEN "True" ELSE "nan")]]]

\* app.py lines 290-297: results_df after the age correction of the rows in
\* hit, joined to df; p is what parse_founding_year returned
Reclassified(p, hit, rows, cols, res) ==
    LET found == p.matched_col # ""
    IN  [reclassified_count |-> Cardinality(hit),
         table |->
            [stored |-> TRUE,
             columns |-> cols \o ResultColumns
                         \o (IF found THEN <<"Founded_Year">> ELSE <<>>)
                         \o (IF hit # {} THEN <<"Age_Corrected">> ELSE <<>>),
             rows |-> [k \in 1..Longer(rows, res) |->
                        FinalRow(IF k <= Len(rows) THEN rows[k] ELSE EmptyMap,
                                 IF k > Len(res) THEN NaNEntry
                                 ELSE IF k \in hit
                                 THEN [res[k] EXCEPT !.Predicted_Archetype =
                                                        "Traditional / Generalist"]
                                 ELSE res[k],
                                 IF found THEN YearAt(p.years, k) ELSE PyNaN,
                                 IF k \in hit THEN "True" ELSE "nan")]]]

\* app.py lines 284-297
Corrected(rows, cols, res) ==
    CHOOSE c \in
        {Reclassified(p, hit, rows, cols, res) :
            <<p, hit>> \in
                {<<q, {k \in 1..Len(res) : q.matched_col # "" /\ mask(res, q.years, k)}>> :
                    q \in {parse_founding_year(rows, cols)}}} : TRUE

\* app_redesign.py lines 146-147: results_df joined to df
Combined(rows, cols, res) ==
    [stored |-> TRUE,
     columns |-> cols \o ResultColumns,
     rows |-> [k \in 1..Longer(rows, res) |->
                FinalRow(IF k <= Len(rows) THEN rows[k] ELSE EmptyMap,
                         IF k > Len(res) THEN NaNEntry ELSE res[k],
                         PyNaN, "nan")]]

----------------------------------------------------------------------------
(* Spec: the keyword classifier applied to one argument *)

KwLocalsInit ==
    /\ total_words = -1
    /\ scores = EmptyMap
    /\ keywords_found_map = EmptyMap
    /\ ret = Unclassified
    /\ calls = <<>>

\* the locals and the return value of a call that is over
SetLocals(v, frame) ==
    /\ text' = v
    /\ total_words' = frame.total_words
    /\ scores' = frame.scores
    /\ keywords_found_map' = frame.keywords_found_map
    /\ ret' = frame.ret

\* classify_description(v): ARCHETYPES is read, the locals are rebound
Call_classify_description(v) ==
    \E frame \in {classify_description(v, ARCHETYPES)} : SetLocals(v, frame)

\* no row call is pending or was made
RowIdle ==
    /\ row = EmptyMap
    /\ main_desc_col = ""
    /\ use_ai = FALSE
    /\ OPENAI_AVAILABLE = TRUE
    /\ client = "none"
    /\ outcomes = <<"ok_full", "ok_full", "ok_full">>
    /\ combined_text = <<>>
    /\ request = <<>>
    /\ events = <<>>
    /\ adapter = "not_called"
    /\ row_ret = NoResult
    /\ row_ret_types = NoTypes
    /\ row_raised = FALSE

\* parse_founding_year was not called
YearsIdle ==
    /\ col_year = ""
    /\ year_series = <<>>

\* no batch is running or was run
BatchIdle ==
    /\ runner = ""
    /\ df = <<>>
    /\ df_columns = <<>>
    /\ service = <<>>
    /\ idx = 0
    /\ results = <<>>
    /\ processed_count = 0
    /\ actual_cost = 0
    /\ checkpoint_file = NoFile
    /\ write_errors = 0
    /\ batch_log = <<>>
    /\ processed_data = NoTable
    /\ reclassified_count = 0
    /\ batch_no = 0

Init ==
    /\ KwLocalsInit
    /\ text \in Inputs
    /\ pc = "ready"
    /\ RowIdle
    /\ BatchIdle
    /\ YearsIdle

ClassifyDescription ==
    /\ pc = "ready"
    /\ Call_classify_description(text)
    /\ pc' = "returned"
    /\ UNCHANGED <<yearVars, calls, rowVars, batchVars>>

Next == ClassifyDescription

Spec == Init /\ [][Next]_vars

----------------------------------------------------------------------------
(* SpecPure: the keyword classifier called again and again *)

PureInputs ==
    { PyStr(<<"p","l","a","t","f","o","r","m">>), PyStr(<<"A","I","-","d","r","i","v","e","n"," ","A","I","-","d","r","i","v","e","n">>), PyStr(<<"b","2","b","2","c">>),
      PyStr(<<"i","n","s","u","r","a","n","c","e">>), PyStr(<<"!","?">>), PyNone }

InitPure ==
    /\ KwLocalsInit
    /\ text = PyNone
    /\ pc = "idle"
    /\ RowIdle
    /\ BatchIdle
    /\ YearsIdle

ClassifyAgain ==
    /\ pc = "idle"
    /\ Len(calls) < MaxCalls
    /\ \E v \in PureInputs :
        /\ Call_classify_description(v)
        /\ calls' = Append(calls, [arg |-> v, ret |-> ret'])
    /\ UNCHANGED <<yearVars, pc, rowVars, batchVars>>

NextPure == ClassifyAgain

SpecPure == InitPure /\ [][NextPure]_vars

----------------------------------------------------------------------------
(* SpecRow: classify_company_row applied to one record *)

AboutValues == {Absent, PyNaN, PyStr(<<"A","I","-","d","r","i","v","e","n">>), PyInt(2015)}
IndustriesValues == {Absent, PyNone, PyStr(<<"i","n","s","u","r","a","n","c","e">>)}
IndustryGroupsValues == {Absent, PyStr(<<"p","l","a","t","f","o","r","m">>)}
FullDescriptionValues == {Absent, PyStr(<<"b","2","b","2","c">>)}
DescriptionValues == {Absent, PyStr(<<>>), PyStr(<<"A","g","e","n","c","y">>)}

RowOf(about, industries, groups, full, description) ==
    LET cells == [c \in {"About", "Industries", "Industry Groups",
                          "Full Description", "Description"} |->
                    CASE c = "About" -> about
                      [] c = "Industries" -> industries
                      [] c = "Industry Groups" -> groups
                      [] c = "Full Description" -> full
                      [] c = "Description" -> description]
    IN  [c \in {c \in DOMAIN cells : cells[c] # Absent} |-> cells[c]]

Rows ==
    {RowOf(a, i, g, f, d) :
        a \in AboutValues, i \in IndustriesValues, g \in IndustryGroupsValues,
        f \in FullDescriptionValues, d \in DescriptionValues}

RECURSIVE Repeat(_, _)
Repeat(s, n) == IF n = 0 THEN <<>> ELSE s \o Repeat(s, n - 1)

\* a description of 503 characters whose only archetype keyword begins after
\* the first 500
LongDescription == Repeat(<<"i","n","s","u","r","a","n","c","e"," ">>, 50) \o <<"p","2","p">>

\* the records classified remotely
RemoteRows ==
    {RowOf(a, Absent, g, Absent, d) :
        a \in {Absent, PyStr(<<"A","I","-","d","r","i","v","e","n">>), PyStr(LongDescription)}, g \in IndustryGroupsValues,
        d \in {Absent, PyStr(<<"A","g","e","n","c","y">>)}}

\* "Summary" is a column of no record
DescriptionColumns == {"About", "Description", "Summary"}

InitRow ==
    /\ text = PyNone
    /\ KwLocalsInit
    /\ pc = "ready"
    /\ main_desc_col \in DescriptionColumns
    /\ use_ai \in BOOLEAN
    /\ OPENAI_AVAILABLE \in BOOLEAN
    /\ client \in {"none", "constructed"}
    /\ IF UseRemote(use_ai, OPENAI_AVAILABLE)
       THEN /\ row \in RemoteRows
            /\ outcomes \in [1..STOP_AFTER_ATTEMPT -> Outcomes]
            \* a client that exists was constructed without error
            /\ client = "constructed" =>
                   \A n \in 1..STOP_AFTER_ATTEMPT : outcomes[n] # "client_error"
       ELSE /\ row \in Rows
            /\ outcomes = [n \in 1..STOP_AFTER_ATTEMPT |-> "ok_full"]
    /\ combined_text = <<>>
    /\ request = <<>>
    /\ events = <<>>
    /\ adapter = "not_called"
    /\ row_ret = NoResult
    /\ row_ret_types = NoTypes
    /\ row_raised = FALSE
    /\ BatchIdle
    /\ YearsIdle

ClassifyCompanyRow ==
    /\ pc = "ready"
    /\ \E r \in {classify_company_row(row, main_desc_col, use_ai, OPENAI_AVAILABLE,
                                       client, outcomes)} :
           /\ combined_text' = r.combined_text
           /\ adapter' = r.adapter
           /\ events' = r.events
           /\ client' = r.client
           /\ request' = r.request
           /\ row_ret' = r.value
           /\ row_ret_types' = r.types
           /\ row_raised' = r.raised
           /\ IF r.frame # NoFrame
              THEN SetLocals(PyStr(r.combined_text), r.frame)
              ELSE UNCHANGED kwVars
    /\ pc' = "returned"
    /\ UNCHANGED <<yearVars, calls, row, main_desc_col, use_ai, OPENAI_AVAILABLE, outcomes,
                   batchVars>>

NextRow == ClassifyCompanyRow

SpecRow == InitRow /\ [][NextRow]_vars

----------------------------------------------------------------------------
(* SpecBatch: a batch runner applied to one table *)

\* a row of a table: its cells and what the remote service does when asked
BatchRow(name, description, founded, outcome) ==
    [name |-> name, description |-> description, founded |-> founded,
     service |-> outcome]

Catalogue ==
    << BatchRow(PyStr(<<"L","e","m","o","n","a","d","e">>), PyStr(<<"A","I","-","d","r","i","v","e","n">>), PyInt(2005), "ok_full"),
       BatchRow(PyStr(<<"O","s","c","a","r">>), PyStr(<<"p","2","p">>), PyInt(2015), "bad_json"),
       BatchRow(PyStr(<<"R","o","o","t">>), PyNaN, PyInt(2005), "ok_other"),
       BatchRow(PyStr(<<"H","i","p","p","o">>), PyStr(<<"A","I","-","d","r","i","v","e","n">>), PyNaN, "timeout"),
       BatchRow(PyStr(<<"N","e","x","t">>), PyStr(<<"p","2","p">>), PyInt(2005), "print_error"),
       BatchRow(PyStr(<<"M","e","t","r","o","m","i","l","e">>), PyStr(<<"p","l","a","t","f","o","r","m">>), PyStr(<<"u","n","k","n","o","w","n">>), "ok_empty"),
       BatchRow(PyStr(<<"C","l","o","v","e","r">>), PyStr(<<"i","n","s","u","r","a","n","c","e">>), PyStr(<<"2","0","0","5">>), "ok_nulls"),
       BatchRow(PyStr(<<"P","i","e">>), PyStr(<<"A","I","-","d","r","i","v","e","n">>), PyInt(2010), "no_choices") >>

\* n rows of the catalogue, from row start on
Cyclic(start, n) ==
    [i \in 1..n |-> Catalogue[((start + i - 2) % Len(Catalogue)) + 1]]

\* a table with a row that has no name, one with a number for a name, one
\* whose founding column is nearly empty, and one with a row that names a
\* keyword three times
Scenarios ==
    { << Catalogue[1], BatchRow(PyNaN, PyStr(<<"p","2","p">>), PyInt(2005), "ok_full"),
         Catalogue[5] >>,
      << Catalogue[5], BatchRow(PyInt(42), PyStr(<<"p","2","p">>), PyInt(2015), "ok_full") >>,
      << BatchRow(PyStr(<<"H","i","p","p","o">>), PyStr(<<"A","I","-","d","r","i","v","e","n">>), PyInt(2015), "ok_full"),
         Catalogue[4], Catalogue[4], Catalogue[4] >>,
      << BatchRow(PyStr(<<"T","r","o","v">>), PyStr(<<"p","2","p",","," ","P","2","P"," ","a","n","d"," ","p","2","p">>), PyInt(2005), "timeout"),
         Catalogue[2] >> }

TableRows ==
    {Cyclic(start, n) : start \in 1..Len(Catalogue), n \in 1..MaxRows} \cup Scenarios

ColumnSets ==
    { <<col_name, col_desc>>, <<col_name, col_desc, "Founded Year">> }

CellsOf(r, cols) ==
    [c \in {cols[k] : k \in 1..Len(cols)} |->
        CASE c = col_name -> r.name
          [] c = col_desc -> r.description
          [] OTHER -> r.founded]

Runners == {"main", "run_analysis"}

InitBatch ==
    /\ text = PyNone
    /\ KwLocalsInit
    /\ pc = "loop"
    /\ row = EmptyMap
    /\ main_desc_col = col_desc
    /\ use_ai \in BOOLEAN
    /\ OPENAI_AVAILABLE \in BOOLEAN
    /\ client = "none"
    /\ outcomes = <<"ok_full", "ok_full", "ok_full">>
    /\ combined_text = <<>>
    /\ request = <<>>
    /\ events = <<>>
    /\ adapter = "not_called"
    /\ row_ret = NoResult
    /\ row_ret_types = NoTypes
    /\ row_raised = FALSE
    /\ runner \in Runners
    \* app.py lines 12-17 and 143-155: main offers the toggle only when the
    \* adapter module was imported; screens/upload.py line 57 always offers it
    /\ (runner = "main" /\ use_ai) => OPENAI_AVAILABLE
    /\ \E rows \in TableRows, cols \in ColumnSets :
        /\ df = [i \in 1..Len(rows) |-> CellsOf(rows[i], cols)]
        /\ df_columns = cols
        /\ service = [i \in 1..Len(rows) |-> rows[i].service]
    /\ idx = 0
    /\ results = <<>>
    /\ processed_count = 0
    /\ actual_cost = 0
    \* a file that an interrupted batch left behind may be there
    /\ checkpoint_file \in {NoFile, File(<<>>)}
    /\ write_errors = 0
    /\ batch_log = <<>>
    /\ processed_data = NoTable
    /\ reclassified_count = 0
    /\ batch_no = 1
    /\ YearsIdle

\* the state after the pass p of the loop over row idx + 1
AfterPass(p) ==
    /\ idx' = idx + 1
    /\ results' = p.results
    /\ processed_count' = Len(p.results)
    /\ actual_cost' = p.actual_cost
    /\ checkpoint_file' = p.checkpoint_file
    /\ client' = p.client
    /\ write_errors' = write_errors + (IF p.write_failed THEN 1 ELSE 0)
    /\ batch_log' = batch_log
                    \o (IF Len(p.results) > Len(results)
                        THEN <<Logged("row", idx + 1)>> ELSE <<>>)
                    \o p.log
                    \o (IF p.aborted THEN <<Logged("aborted", idx + 1)>> ELSE <<>>)
    /\ pc' = IF p.aborted THEN "aborted" ELSE "loop"
    /\ UNCHANGED <<yearVars, kwVars, calls, row, main_desc_col, use_ai, OPENAI_AVAILABLE,
                   outcomes, combined_text, request, events, adapter, row_ret,
                   row_ret_types, row_raised, runner, df, df_columns, service,
                   processed_data, reclassified_count, batch_no>>

\* app.py lines 210-278: one pass of the loop
MainRow ==
    /\ runner = "main" /\ pc = "loop" /\ idx < Len(df)
    /\ \E c \in {Classified(df[idx + 1], service[idx + 1], use_ai,
                             OPENAI_AVAILABLE, client)} :
        \E write_fails \in BOOLEAN :
            \E p \in {MainPass(c, Len(df), use_ai, results, actual_cost,
                               checkpoint_file, write_fails)} :
                /\ write_fails => (p.write_failed /\ write_errors < MaxWriteErrors)
                /\ AfterPass(p)

\* app_redesign.py lines 70-143: one pass of the loop
AnalysisRow ==
    /\ runner = "run_analysis" /\ pc = "loop" /\ idx < Len(df)
    /\ \E c \in {Classified(df[idx + 1], service[idx + 1], use_ai,
                             OPENAI_AVAILABLE, client)} :
        \E write_fails \in BOOLEAN :
            \E p \in {AnalysisPass(df[idx + 1], c, Len(df), use_ai, client, results,
                                   actual_cost, checkpoint_file, write_fails)} :
                /\ write_fails => (p.write_failed /\ write_errors < MaxWriteErrors)
                /\ AfterPass(p)

\* the same lines, with the file left where it is
Cleanup_Keep(remove_fails, steps) ==
    /\ remove_fails => checkpoint_file.exists
    /\ checkpoint_file' = checkpoint_file
    /\ batch_log' = batch_log \o steps
\* app.py lines 305-306 and app_redesign.py lines 154-158: the file is removed
\* if it is there; remove_fails: os.remove would raise
Cleanup(remove_fails, steps) ==
    /\ remove_fails => checkpoint_file.exists
    /\ checkpoint_file' = IF remove_fails THEN checkpoint_file ELSE NoFile
    /\ batch_log' = batch_log \o steps
                    \o (IF ~checkpoint_file.exists THEN <<>>
                        ELSE IF remove_fails
                        THEN <<Logged("remove_failed", Len(results))>>
                        ELSE <<Logged("removed", Len(results))>>)

\* app.py lines 280-308: what main does after the loop
MainFinish ==
    /\ runner = "main" /\ pc = "loop" /\ idx = Len(df)
    /\ \E c \in {Corrected(df, df_columns, results)} :
        /\ processed_data' = c.table
        /\ reclassified_count' = c.reclassified_count
    /\ \E remove_fails \in BOOLEAN :
        /\ Cleanup(remove_fails, <<Logged("corrector", Len(results)),
                                  Logged("stored", Len(results))>>)
        \* the exception of os.remove leaves main
        /\ pc' = IF remove_fails THEN "aborted" ELSE "done"
    /\ UNCHANGED <<yearVars, kwVars, calls, rowVars, runner, df, df_columns, service, idx,
                   results, processed_count, actual_cost, write_errors,
                   batch_no>>

\* app_redesign.py lines 145-162: what run_analysis does after the loop
AnalysisFinish ==
    /\ runner = "run_analysis" /\ pc = "loop" /\ idx = Len(df)
    /\ processed_data' = Combined(df, df_columns, results)
    /\ \E remove_fails \in BOOLEAN :
        Cleanup(remove_fails, <<Logged("stored", Len(results))>>)
    /\ pc' = "done"
    /\ UNCHANGED <<yearVars, kwVars, calls, rowVars, runner, df, df_columns, service, idx,
                   results, processed_count, actual_cost, write_errors,
                   reclassified_count, batch_no>>

NextBatch == MainRow \/ MainFinish \/ AnalysisRow \/ AnalysisFinish

SpecBatch == InitBatch /\ [][NextBatch]_vars

----------------------------------------------------------------------------
(* SpecYears: parse_founding_year on one table                              *)

\* a founding column of n cells: v cells that hold a number (2005, or the
\* text "2015"), then the filler
YearColumn(n, v, filler) ==
    [i \in 1..n |-> IF i > v THEN filler
                    ELSE IF i % 2 = 1 THEN PyInt(2005) ELSE PyStr(<<"2","0","1","5">>)]

YearFillers == {PyNaN, PyStr(<<"u","n","k","n","o","w","n">>), PyStr(<<"2","0","1","2","-","0","3","-","0","1">>)}

YearColumns ==
    {YearColumn(n, v, f) : n \in 1..MaxRows, v \in 0..MaxRows, f \in YearFillers}

\* no founding column; one; two, the second candidate of the list first in
\* column order; one whose name is in capitals
YearColumnSets ==
    { <<col_name, col_desc>>,
      <<col_name, col_desc, "Founded Year">>,
      <<col_name, "Launch Date", col_desc, "Founded Year">>,
      <<col_name, "YEAR FOUNDED">> }

YearCells(cols, founded) ==
    [c \in {cols[k] : k \in 1..Len(cols)} |->
        CASE c = col_name -> PyStr(<<"A","c","m","e">>)
          [] c = col_desc -> PyStr(<<"p","2","p">>)
          [] c = "Launch Date" -> PyStr(<<"2","0","1","9","-","0","6","-","0","1">>)
          [] OTHER -> founded]

InitYears ==
    /\ KwLocalsInit
    /\ text = PyNone
    /\ pc = "ready"
    /\ RowIdle
    /\ \E column \in YearColumns, cols \in YearColumnSets :
        /\ df = [i \in 1..Len(column) |-> YearCells(cols, column[i])]
        /\ df_columns = cols
    /\ runner = ""
    /\ service = <<>>
    /\ idx = 0
    /\ results = <<>>
    /\ processed_count = 0
    /\ actual_cost = 0
    /\ checkpoint_file = NoFile
    /\ write_errors = 0
    /\ batch_log = <<>>
    /\ processed_data = NoTable
    /\ reclassified_count = 0
    /\ batch_no = 0
    /\ YearsIdle

\* app.py lines 80-102: one call of parse_founding_year(df)
ParseFoundingYear ==
    /\ pc = "ready"
    /\ \E p \in {parse_founding_year(df, df_columns)} :
        /\ col_year' = p.matched_col
        /\ year_series' = p.years
    /\ pc' = "returned"
    /\ UNCHANGED <<kwVars, calls, rowVars, batchVars>>

NextYears == ParseFoundingYear

SpecYears == InitYears /\ [][NextYears]_vars

----------------------------------------------------------------------------
(* SpecSession: one application session that runs the batch again           *)

\* what a further batch finds as it begins: a fresh results list and loop
\* index; the session state, the checkpoint file and the adapter's client
\* are the ones the batch before left
Begin ==
    /\ pc \in {"done", "aborted"}
    /\ batch_no < MaxBatches
    /\ batch_no' = batch_no + 1
    /\ pc' = "loop"
    /\ idx' = 0
    /\ results' = <<>>
    /\ batch_log' = <<>>
    /\ UNCHANGED <<yearVars, kwVars, calls, rowVars, runner, df, df_columns, service,
                   checkpoint_file, write_errors, processed_data,
                   reclassified_count>>

\* app.py lines 105-113 and 173-208: START ANALYSIS is pressed again; the two
\* statistics are set only when the session does not have them yet
MainStart ==
    /\ runner = "main"
    /\ Begin
    /\ UNCHANGED <<processed_count, actual_cost>>

\* app_redesign.py lines 50-67: the loading screen is entered again
AnalysisStart ==
    /\ runner = "run_analysis"
    /\ Begin
    /\ processed_count' = 0
    /\ actual_cost' = 0

NextSession == NextBatch \/ MainStart \/ AnalysisStart

SpecSession == InitBatch /\ [][NextSession]_vars

----------------------------------------------------------------------------
(* SpecResume: main is stopped in the middle of a batch and started again   *)

\* app.py lines 210-278: the run of the script ends between two passes of the
\* loop (the user acts on the page, the browser goes away, the process dies);
\* the session and the checkpoint file stay as they are
Interrupt ==
    /\ runner = "main" /\ pc = "loop"
    /\ 0 < idx /\ idx < Len(df)
    /\ batch_no < MaxBatches
    /\ pc' = "aborted"
    /\ batch_log' = Append(batch_log, Logged("interrupted", idx))
    /\ UNCHANGED <<yearVars, kwVars, calls, rowVars, runner, df, df_columns, service, idx,
                   results, processed_count, actual_cost, checkpoint_file,
                   write_errors, processed_data, reclassified_count, batch_no>>

InitResume == InitBatch /\ runner = "main"

NextResume == MainRow \/ MainFinish \/ Interrupt \/ MainStart

SpecResume == InitResume /\ [][NextResume]_vars

----------------------------------------------------------------------------
(* Claims about the keyword classifier *)

Returned == pc = "returned"

\* the call got as far as the scoring loop
Scored == Returned /\ DOMAIN scores = DOMAIN ARCHETYPES

Archetypes == DOMAIN ARCHETYPES

\* position of an archetype in the declaration order
DeclIndex(a) == CHOOSE i \in 1..Len(ArchetypeOrder) : ArchetypeOrder[i] = a

\* the keywords of archetype a that occur in the lowercased text, in table order
MatchedKeywords(a) ==
    SelectSeq(ARCHETYPES[a], LAMBDA kw : Contains(kw, lower(text.s)))

\* the generic terms that occur in the lowercased text, in list order
MatchedGenerics ==
    SelectSeq(generic_keywords, LAMBDA w : Contains(w, lower(text.s)))

TopScore == CHOOSE m \in {scores[a] : a \in Archetypes} :
                \A a \in Archetypes : scores[a] <= m

Leaders == {a \in Archetypes : scores[a] = TopScore}

\* the leader declared first, and the leader declared first among the others
FirstOf(S) == CHOOSE a \in S : \A b \in S : DeclIndex(a) <= DeclIndex(b)

DisruptorsExample == PyStr(<<"a","u","t","o","m","a","t","i","o","n"," ","a","i","-","d","r","i","v","e","n"," ","m","a","c","h","i","n","e"," ","l","e","a","r","n","i","n","g"," ","c","l","o","u","d">>)

\* C1: a strict winner with score >= 1 is returned, "High" from score 3 on and
\* "Medium" for 1 and 2, with its matched keywords joined by ", " in table order
C1_StrictWinner ==
    /\ (Scored /\ Cardinality(Leaders) = 1 /\ TopScore >= 1) =>
          LET w == FirstOf(Leaders)
          IN  /\ ret.archetype = w
              /\ ret.confidence = (IF scores[w] >= 3 THEN "High" ELSE "Medium")
              /\ ret.evidence = Join(CommaSpace, MatchedKeywords(w))
    /\ (Returned /\ text = DisruptorsExample) =>
          ret = Triple("Disruptors", "High",
                       <<"a","u","t","o","m","a","t","i","o","n",","," ","a","i","-","d","r","i","v","e","n",","," ","m","a","c","h","i","n","e"," ","l","e","a","r","n","i","n","g">>)

\* C1 witness: a strict winner with score 3 beside another archetype that scored
C1_Witness ==
    /\ Scored /\ Cardinality(Leaders) = 1 /\ TopScore = 3
    /\ \E a \in Archetypes \ Leaders : scores[a] >= 1
    /\ ret.confidence = "High"

\* C2: equal nonzero top scores give "Hybrid" / "Medium" with the evidence of the
\* first two tied archetypes in declaration order, not deduplicated
C2_Hybrid ==
    (Scored /\ Cardinality(Leaders) >= 2 /\ TopScore >= 1) =>
        LET first == FirstOf(Leaders)
            second == FirstOf(Leaders \ {first})
        IN  ret = Triple("Hybrid", "Medium",
                         Join(CommaSpace, MatchedKeywords(first) \o MatchedKeywords(second)))

\* C2 witness: three archetypes tie and the third contributes no evidence
C2_Witness ==
    /\ Scored /\ Cardinality(Leaders) >= 3 /\ TopScore >= 1
    /\ ret.archetype = "Hybrid"
    /\ ret.evidence = <<"p","l","a","t","f","o","r","m",","," ","a","g","e","n","c","y">>

\* C3: with a word token and every score 0, the result is "Traditional /
\* Generalist" with the generic terms found, in list order, or "Unclassified"
C3_Rescue ==
    (Scored /\ TopScore = 0) =>
        ret = (IF MatchedGenerics # <<>>
               THEN Triple("Traditional / Generalist", "Low",
                           Join(CommaSpace, MatchedGenerics))
               ELSE Unclassified)

\* C3 witness: generic terms found in another order than they occur in the text
C3_Witness ==
    /\ Scored /\ TopScore = 0
    /\ text = PyStr(<<"l","t","d"," ","s","e","r","v","i","c","e","s"," ","i","n","s","u","r","a","n","c","e">>)
    /\ ret.evidence = <<"i","n","s","u","r","a","n","c","e",","," ","s","e","r","v","i","c","e","s",","," ","l","t","d">>

GenericOnlyTexts ==
    {PyStr(<<"A","c","m","e"," ","I","n","s","u","r","a","n","c","e"," ","A","g","e","n","c","y"," ","L","t","d">>)}
        \cup {PyStr(generic_keywords[i]) : i \in 1..Len(generic_keywords)}

\* C4: a text made up only of generic terms is "Traditional / Generalist" / "Low"
\* with the generic terms it holds
C4_GenericOnly ==
    (Returned /\ text \in GenericOnlyTexts) =>
        ret = Triple("Traditional / Generalist", "Low",
                     Join(CommaSpace, MatchedGenerics))

NoWordToken(s) == \A i \in 1..Len(s) : s[i] \notin WordChars

\* C5: a non-string and a string without a word token give ("Unclassified",
\* "Low", "") and no keyword is scored
C5_Degenerate ==
    (Returned /\ (text.kind # "str" \/ NoWordToken(text.s))) =>
        /\ ret = Unclassified
        /\ DOMAIN scores = {}
        /\ DOMAIN keywords_found_map = {}

\* C5 witness: a non-empty string of punctuation
C5_Witness ==
    /\ Returned /\ text.kind = "str" /\ Len(text.s) > 0 /\ NoWordToken(text.s)
    /\ " " \notin {text.s[i] : i \in 1..Len(text.s)}
    /\ ret = Unclassified

----------------------------------------------------------------------------
(* Claims about classify_company_row and classify_with_openai *)

AuxiliaryFields == <<"Industries", "Industry Groups", "Full Description", "Description">>

\* the field is in the record and its value is not missing
Present(field) == field \in DOMAIN row /\ row[field].kind \notin {"none", "nan"}

\* the designated field, then the auxiliary fields other than it
FieldOrder ==
    <<main_desc_col>> \o SelectSeq(AuxiliaryFields, LAMBDA f : f # main_desc_col)

ExpectedText ==
    LET fields == SelectSeq(FieldOrder, Present)
    IN  Join(Space, [i \in 1..Len(fields) |-> str(row[fields[i]])])

\* C7: the assembled text is the single-space join of the designated field and
\* then Industries, Industry Groups, Full Description, Description, leaving out
\* what is absent, missing or the designated field itself; "" when nothing is left
C7_Assembled ==
    Returned =>
        /\ ~row_raised
        /\ combined_text = ExpectedText
        /\ (\A f \in DOMAIN row \cup {main_desc_col} : ~Present(f)) => combined_text = <<>>

\* C7 witness: the designated field is an auxiliary field too, and one auxiliary
\* value is missing
C7_Witness ==
    /\ Returned
    /\ main_desc_col = "Description"
    /\ "Industries" \in DOMAIN row /\ ~Present("Industries")
    /\ combined_text = <<"A","g","e","n","c","y"," ","p","l","a","t","f","o","r","m"," ","b","2","b","2","c">>

RemoteRequested == use_ai /\ OPENAI_AVAILABLE

Occurrences(e) == Cardinality({i \in 1..Len(events) : events[i] = e})

\* the keyword classifier's result for the assembled text, secondary fields empty
IsKeywordResult(six) ==
    \E k \in {classify_description(PyStr(ExpectedText), ARCHETYPES).ret} :
        six = Six(k.archetype, k.confidence, k.evidence, <<>>, <<>>, <<>>)

\* C8: the remote classifier is called exactly when AI mode is requested and
\* the adapter is available; otherwise nothing is sent and the result is the
\* keyword classifier's, with the three secondary fields empty
C8_Dispatch ==
    Returned =>
        /\ (Occurrences("enter") > 0) <=> RemoteRequested
        /\ (adapter # "not_called") <=> RemoteRequested
        /\ ~RemoteRequested =>
              /\ events = <<>>
              /\ ~row_raised
              /\ IsKeywordResult(row_ret)

\* C8 witness: AI mode requested without the adapter
C8_Witness ==
    /\ Returned /\ use_ai /\ ~OPENAI_AVAILABLE
    /\ events = <<>>
    /\ row_ret.archetype = "Hybrid"

\* C9: when the adapter raises, classify_company_row does not raise and returns
\* the keyword classifier's result for the same text, secondary fields empty
C9_Fallback ==
    (Returned /\ adapter = "raised") =>
        /\ ~row_raised
        /\ IsKeywordResult(row_ret)

\* C9 witness: three attempts raised before anything was sent
C9_Witness ==
    /\ Returned /\ adapter = "raised"
    /\ Occurrences("enter") = 3 /\ Occurrences("api_call") = 0
    /\ row_ret.archetype = "Hybrid"

\* the number of attempts, from attempt n on, that time out before one does not
RECURSIVE TimeoutsFrom(_)
TimeoutsFrom(n) ==
    IF n > STOP_AFTER_ATTEMPT \/ outcomes[n] # "timeout" THEN 0
    ELSE 1 + TimeoutsFrom(n + 1)

\* C10: a call that fails with a timeout is attempted again, up to 3 attempts
\* with a backoff wait between them; "API Error" is returned only after the last
\* attempt failed, and a success on attempt 2 or 3 returns the classification
C10_Retry ==
    (/\ Returned /\ RemoteRequested
     /\ \A n \in 1..STOP_AFTER_ATTEMPT : outcomes[n] \in {"timeout", "ok_full", "ok_empty"}) =>
        LET failed == TimeoutsFrom(1)
            attempts == IF failed = STOP_AFTER_ATTEMPT THEN failed ELSE failed + 1
        IN  /\ Occurrences("api_call") = attempts
            /\ Occurrences("backoff") = attempts - 1
            /\ row_ret = (IF failed = STOP_AFTER_ATTEMPT
                          THEN ApiError(ErrorMessage.timeout)
                          ELSE Extract(Payload[outcomes[failed + 1]]))

\* the attempt whose body got past the print of line 43 (0: none did)
RECURSIVE FirstTried(_)
FirstTried(n) ==
    IF n > STOP_AFTER_ATTEMPT THEN 0
    ELSE IF outcomes[n] # "print_error" THEN n
    ELSE FirstTried(n + 1)

\* the failures of the outbound call and of parsing its response
CallFailures ==
    {"client_error", "timeout", "network_error", "no_choices", "null_content",
     "bad_json", "not_object"}

IsPrefix(p, s) == Len(p) <= Len(s) /\ p = SubSeq(s, 1, Len(p))

\* C11: whenever the outbound call fails (client construction, network error,
\* timeout, malformed response object) or its response cannot be parsed,
\* classify_with_openai returns instead of raising: archetype "API Error"
\* ("API Error - JSON" for a payload that is not JSON), confidence "Low", as
\* evidence a string with at most 80 characters of the error text, and empty
\* secondary archetypes, driving capabilities and innovation wave
C11_NeverRaises ==
    (/\ Returned /\ RemoteRequested
     /\ FirstTried(1) # 0
     /\ outcomes[FirstTried(1)] \in CallFailures) =>
        LET outcome == outcomes[FirstTried(1)]
        IN  /\ adapter = "returned"
            /\ ~row_raised
            /\ row_ret.archetype =
                   (IF outcome = "bad_json" THEN "API Error - JSON" ELSE "API Error")
            /\ row_ret.confidence = "Low"
            /\ row_ret_types.evidence = "str"
            /\ IF outcome = "bad_json"
               THEN row_ret.evidence = <<"J","S","O","N"," ","p","a","r","s","e"," ","e","r","r","o","r">>
               ELSE \E n \in 0..ERROR_LIMIT :
                       /\ n <= Len(ErrorMessage[outcome])
                       /\ n < ERROR_LIMIT => n = Len(ErrorMessage[outcome])
                       /\ row_ret.evidence =
                              <<"E","r","r","o","r",":"," ">> \o SubSeq(ErrorMessage[outcome], 1, n)
            /\ row_ret.secondary_archetypes = <<>>
            /\ row_ret.driving_capabilities = <<>>
            /\ row_ret.innovation_wave = <<>>

\* C11 witness: a connection error whose text is longer than 80 characters
C11_Witness ==
    /\ Returned /\ adapter = "returned"
    /\ outcomes[1] = "network_error"
    /\ Len(ErrorMessage.network_error) > ERROR_LIMIT
    /\ row_ret.archetype = "API Error"
    /\ Len(row_ret.evidence) = 7 + ERROR_LIMIT

Levels == {"Low", "Medium", "High"}

\* C12: whatever classify_company_row returns, in keyword mode and for every
\* structured response of the remote service, the archetype is not None, the
\* confidence is one of Low, Medium, High and the evidence is a str
C12_ResultTypes ==
    (Returned /\ ~row_raised) =>
        /\ row_ret_types.archetype # "none"
        /\ row_ret_types.confidence = "str" /\ row_ret.confidence \in Levels
        /\ row_ret_types.evidence = "str"

----------------------------------------------------------------------------
(* Claims about the batch runners *)

Stored == processed_data.stored

HasLogged(op) == \E i \in 1..Len(batch_log) : batch_log[i].op = op

\* C13: in both batch runners an exception raised while one row is handled
\* never ends the batch: the row gets ("Processing Error", "Low", at most 100
\* characters of the error text, empty secondary fields) and the rows after it
\* are handled, also when the name or the description of the row is missing
\* or is not a string
C13_RowIsolation ==
    /\ pc = "aborted" => idx = Len(df) /\ Stored
    /\ \A k \in 1..Len(results) :
          results[k].Predicted_Archetype = "Processing Error" =>
              /\ results[k].Confidence_Score = "Low"
              /\ Len(results[k].Keywords_Found) <= PROCESSING_ERROR_LIMIT
              /\ results[k].Secondary_Archetypes = <<>>
              /\ results[k].Driving_Capabilities = <<>>
              /\ results[k].Innovation_Wave = <<>>

\* the founding column was found
FoundingColumn == \E j \in 1..Len(processed_data.columns) :
                      processed_data.columns[j] = "Founded_Year"

\* row k of the final table was predicted Disruptors or Innovators and has an
\* extracted founding year before 2010
Old(k) ==
    /\ results[k].Predicted_Archetype \in {"Disruptors", "Innovators"}
    /\ FoundingColumn
    /\ processed_data.rows[k].Founded_Year.kind = "int"
    /\ processed_data.rows[k].Founded_Year.n < 2010

\* row k of the final table was overwritten and flagged
Overwritten(k) ==
    /\ processed_data.rows[k].result.Predicted_Archetype = "Traditional / Generalist"
    /\ processed_data.rows[k].result # results[k]
    /\ processed_data.rows[k].Age_Corrected = "True"

\* row k of the final table is as it was classified
Untouched(k) ==
    /\ processed_data.rows[k].result = results[k]
    /\ processed_data.rows[k].Age_Corrected = "nan"

\* C14: after the corrector of main has run, a row is overwritten to
\* "Traditional / Generalist" and flagged exactly when it was predicted
\* Disruptors or Innovators and its extracted founding year is there and is
\* before 2010; every other row is as it was classified (a year that is
\* missing or does not parse, no founding column), and the count reported is
\* the number of rows overwritten
C14_Corrector ==
    (runner = "main" /\ Stored) =>
        /\ Len(processed_data.rows) = Len(results)
        /\ \A k \in 1..Len(results) :
              /\ Overwritten(k) <=> Old(k)
              /\ ~Old(k) => Untouched(k)
        /\ reclassified_count = Cardinality({k \in 1..Len(results) : Overwritten(k)})

\* C14 witness: of three rows predicted Disruptors or Innovators, the one of
\* 2005 is overwritten and those of 2015 and of 2010 are not
C14_Witness ==
    /\ runner = "main" /\ Stored /\ ~use_ai
    /\ Len(df) >= 3
    /\ "Founded Year" \in DOMAIN df[1]
    /\ df[1]["Founded Year"] = PyInt(2005) /\ Overwritten(1)
    /\ df[2]["Founded Year"] = PyInt(2015) /\ Untouched(2)
    /\ results[2].Predicted_Archetype = "Innovators"
    /\ \E k \in 1..Len(df) :
          /\ df[k]["Founded Year"] = PyInt(2010) /\ Untouched(k)
          /\ results[k].Predicted_Archetype = "Disruptors"
    /\ reclassified_count >= 1

\* the Initial_Archetype of a row of the final table, "nan" where the table
\* has no such value
InitialArchetype(r) ==
    IF "Initial_Archetype" \in DOMAIN r THEN r.Initial_Archetype ELSE "nan"

\* C15: every row the corrector reclassifies keeps the archetype it was
\* predicted in Initial_Archetype of the final table (predicted Innovators,
\* founded 2005: Predicted_Archetype "Traditional / Generalist" and
\* Initial_Archetype "Innovators")
C15_InitialArchetype ==
    (runner = "main" /\ Stored) =>
        \A k \in 1..Len(results) :
            Overwritten(k) =>
                /\ \E j \in 1..Len(processed_data.columns) :
                      processed_data.columns[j] = "Initial_Archetype"
                /\ InitialArchetype(processed_data.rows[k])
                       = results[k].Predicted_Archetype

Positions(op) == {i \in 1..Len(batch_log) : batch_log[i].op = op}

\* C16: in both batch runners the corrector runs exactly once per batch, on
\* the results of all the rows, after the last row was classified and before
\* the final table is stored; no final table is stored uncorrected
C16_CorrectorOnce ==
    /\ Cardinality(Positions("corrector")) <= 1
    /\ \A i \in Positions("corrector") :
          /\ idx = Len(df)
          /\ \A j \in Positions("row") : j < i
          /\ \A j \in Positions("stored") : i < j
    /\ Stored =>
          /\ Positions("corrector") # {}
          /\ \A k \in 1..Len(results) :
                ~(/\ processed_data.rows[k].result.Predicted_Archetype
                         \in {"Disruptors", "Innovators"}
                  /\ "Founded Year" \in DOMAIN processed_data.rows[k].input
                  /\ processed_data.rows[k].input["Founded Year"] = PyInt(2005))

\* the writes of the checkpoint file that were tried
Writes == Positions("write") \cup Positions("write_failed")

\* C17: in both batch runners the checkpoint file is written each time the
\* number of rows handled reaches a positive multiple of the checkpoint
\* frequency, for a row that was classified and for a row that became a
\* "Processing Error" alike, and at no other time
C17_Checkpoints ==
    pc \in {"loop", "done"} =>
        /\ Cardinality(Writes) = idx \div 5
        /\ \A i \in Writes :
              /\ i > 1
              /\ batch_log[i - 1].op = "row"
              /\ batch_log[i - 1].n % 5 = 0

RowOutcome(k) ==
    Classified(df[k], service[k], use_ai, OPENAI_AVAILABLE, "constructed")

\* row k was classified by the remote service, with a result that is no error
RemoteClassified(k) ==
    \E c \in {RowOutcome(k)} :
        /\ c.adapter = "returned"
        /\ c.kind = "entry"
        /\ c.entry.Predicted_Archetype \notin {"API Error", "API Error - JSON"}

\* C19: at the end of a batch the cost is 0.0002 for each row that the remote
\* service classified with a result that is no error, and nothing for the
\* other rows: "API Error", "API Error - JSON", "Processing Error", and the
\* rows that the keyword classifier classified
C19_Cost ==
    pc = "done" =>
        actual_cost = 2 * Cardinality({k \in 1..Len(df) : RemoteClassified(k)})

\* the dict that belongs to row k in the results list
ExpectedEntry(k) ==
    CHOOSE e \in {IF c.kind = "entry" THEN c.entry ELSE ProcessingError(c.message) :
                    c \in {RowOutcome(k)}} : TRUE

\* C20: at every point of the loop the results list has one entry for each
\* row handled so far, in the order of the input, also when something raises
\* after the entry of a row was appended; the final table has as many rows as
\* the input, row k with the cells of input row k and the result of row k
C20_OnePerRow ==
    /\ pc \in {"loop", "done"} => Len(results) = idx
    /\ Stored =>
          /\ Len(processed_data.rows) = Len(df)
          /\ Len(results) = Len(df)
          /\ \A k \in 1..Len(df) :
                /\ processed_data.rows[k].input = df[k]
                /\ results[k] = ExpectedEntry(k)

----------------------------------------------------------------------------
(* Claims about the run statistics *)

\* the step begins a batch
BatchBegins == pc' = "loop" /\ idx' = 0 /\ batch_no' # batch_no

\* the step handles one row of the running batch, and the batch goes on
RowHandled == batch_no' = batch_no /\ idx' = idx + 1 /\ pc' = "loop"

\* C21: every batch of a session, the second and later ones too, begins with
\* processed_count 0 and cost 0; every row handled adds exactly one to
\* processed_count; during a batch neither processed_count nor the cost
\* ever decreases
C21_Statistics ==
    [][/\ BatchBegins => (processed_count' = 0 /\ actual_cost' = 0)
       /\ RowHandled => processed_count' = processed_count + 1
       /\ batch_no' = batch_no => /\ processed_count' >= processed_count
                                  /\ actual_cost' >= actual_cost]_vars

----------------------------------------------------------------------------
(* Claims about the scores *)

\* the positions of s where sub occurs
MatchPositions(sub, s) == {i \in 1..(Len(s) - Len(sub) + 1) : MatchAt(sub, s, i)}

\* the occurrences a scan from left to right takes: an occurrence is taken
\* unless it overlaps one taken before it
TakenOccurrences(sub, s) ==
    LET M == MatchPositions(sub, s)
        taken[i \in 0..Len(s)] ==
            IF i = 0 THEN {}
            ELSE IF i \in M /\ \A j \in taken[i - 1] : j + Len(sub) <= i
            THEN taken[i - 1] \cup {i}
            ELSE taken[i - 1]
    IN  IF M = {} THEN {} ELSE taken[Len(s)]

RECURSIVE SumOccurrences(_, _, _)
SumOccurrences(kws, k, s) ==
    IF k > Len(kws) THEN 0
    ELSE Cardinality(TakenOccurrences(kws[k], s)) + SumOccurrences(kws, k + 1, s)

\* C22: for a text with a word token the score of every archetype is the sum,
\* over its keywords, of the non-overlapping left-to-right occurrences of the
\* keyword in the lowercased text, and its evidence list is the keywords that
\* occur, each once, in table order
C22_Scores ==
    (Returned /\ isinstance_str(text) /\ CountWords(text.s) >= 1) =>
        /\ DOMAIN scores = Archetypes
        /\ \A a \in Archetypes :
            /\ scores[a] = SumOccurrences(ARCHETYPES[a], 1, lower(text.s))
            /\ keywords_found_map[a] =
                  SelectSeq(ARCHETYPES[a],
                            LAMBDA kw : TakenOccurrences(kw, lower(text.s)) # {})

\* C22 witness: a keyword that occurs twice adds 2 and is listed once
C22_Witness ==
    /\ Scored
    /\ text = PyStr(<<"p","2","p"," ","p","2","p">>)
    /\ scores["Innovators"] = 2
    /\ keywords_found_map["Innovators"] = <<<<"p","2","p">>>>

----------------------------------------------------------------------------
(* Claims about the outbound calls *)

\* the positions of the event log where the remote service is called
ApiCalls == {i \in 1..Len(events) : events[i] = "api_call"}

\* C23: every outbound call, those of retried attempts too, comes right after
\* one wait of the rate-limit delay made by the same run of the adapter's
\* body; no call goes out without that wait
C23_RateLimit ==
    \A i \in ApiCalls :
        /\ i > 2
        /\ events[i - 1] = "rate_limit_delay"
        /\ events[i - 2] = "enter"

\* C23 witness: the call of a second attempt, made after the backoff wait
C23_Witness ==
    /\ pc = "returned"
    /\ \E i \in ApiCalls : i > 3 /\ events[i - 3] = "backoff"

NoClient == FirstTried(1) # 0 /\ outcomes[FirstTried(1)] = "client_error"

FirstChars(s, n) == IF Len(s) <= n THEN s ELSE [i \in 1..n |-> s[i]]

\* C25: the description in the request sent to the remote service is the
\* first 500 characters of the assembled text, the whole text when it is
\* shorter; the keyword fallback after an exception of the adapter classifies
\* the whole assembled text
C25_Truncation ==
    Returned =>
        /\ Occurrences("api_call") >= 1 => request = FirstChars(ExpectedText, 500)
        /\ adapter = "raised" =>
              /\ text = PyStr(ExpectedText)
              /\ IsKeywordResult(row_ret)

\* C25 witness: a request made for an assembled text of more than 500
\* characters
C25_Witness ==
    /\ Returned
    /\ Len(ExpectedText) > 500
    /\ Occurrences("api_call") = 1
    /\ Len(request) = 500

----------------------------------------------------------------------------
(* Claims about resumption *)

\* the step begins a batch while the checkpoint file of the batch that was
\* interrupted is there
Resumes == BatchBegins /\ HasLogged("interrupted") /\ checkpoint_file.exists

\* the results of an uninterrupted run over the whole input
AllEntries == [k \in 1..Len(df) |-> ExpectedEntry(k)]

\* C26: a batch resumed from a checkpoint with the first k rows goes on at
\* row k, so that only the rows from k on are classified again; every
\* checkpoint it writes pairs each row with the row's own result; its final
\* table is the one an uninterrupted run over the same input stores
C26_Resume ==
    [][/\ Resumes => idx' = Len(checkpoint_file.results)
       /\ (batch_no' > 1 /\ checkpoint_file'.exists
           /\ checkpoint_file' # checkpoint_file) =>
              \A k \in 1..Len(checkpoint_file'.results) :
                  checkpoint_file'.results[k] = ExpectedEntry(k)
       /\ (batch_no' > 1 /\ pc = "loop" /\ pc' # "loop" /\ processed_data'.stored) =>
              processed_data' = Corrected(df, df_columns, AllEntries).table]_vars

----------------------------------------------------------------------------
(* Claims about the founding year *)

\* the positions of the columns whose lowercased name contains one of founded,
\* founding, year, establishment, launch
FoundingPositions ==
    {k \in 1..Len(df_columns) :
        \E c \in 1..Len(candidates) :
            Contains(candidates[c], lower(ColumnText[df_columns[k]]))}

\* the first of them in column order, "" when there is none
FirstFoundingColumn ==
    IF FoundingPositions = {} THEN ""
    ELSE df_columns[CHOOSE k \in FoundingPositions : \A j \in FoundingPositions : k <= j]

\* the cell holds a number, or a text that reads as one
IsNumber(v) == v.kind = "int" \/ (v.kind = "str" /\ IsDigits(v.s))

NumberOf(v) == IF v.kind = "int" THEN v.n ELSE ParseInt(v.s)

\* the cell holds a text that reads as a calendar date
IsDateText(v) == v.kind = "str" /\ IsDate(v.s)

\* C27: the matched column is the first column in column order whose
\* lowercased name contains founded, founding, year, establishment or launch.
\* When fewer than 30% of its cells read as a number the year of every row is
\* the year of the row's calendar date, missing when the cell has no date (a
\* cell that holds a bare number has no calendar date: its year is the number
\* or missing); when 30% or more do, exactly 30% too, the year of every row is
\* its number, missing when the cell does not read as a number
C27_Years ==
    pc = "returned" =>
        /\ col_year = FirstFoundingColumn
        /\ col_year # "" =>
            LET cell(i) == df[i][col_year]
                numbers == {i \in 1..Len(df) : IsNumber(cell(i))}
            IN  /\ Len(year_series) = Len(df)
                /\ \A i \in 1..Len(df) :
                    IF Cardinality(numbers) * 10 < Len(df) * 3
                    THEN IF IsDateText(cell(i))
                         THEN year_series[i] = PyInt(ParseInt(SubSeq(cell(i).s, 1, 4)))
                         ELSE IF IsNumber(cell(i))
                         THEN year_series[i] \in {PyInt(NumberOf(cell(i))), PyNaN}
                         ELSE year_series[i] = PyNaN
                    ELSE IF IsNumber(cell(i))
                         THEN year_series[i] = PyInt(NumberOf(cell(i)))
                         ELSE year_series[i] = PyNaN

----------------------------------------------------------------------------
(* Claims about the shape of the keyword classifier's result *)

RealArchetypes ==
    {"Enablers", "Connectors", "Innovators", "Disruptors", "Protectors",
     "Integrators", "Transformers"}

\* C28: every result of classify_description has one of the seven real
\* archetypes, "Hybrid", "Traditional / Generalist" or "Unclassified"; its
\* confidence is "Low" exactly for "Unclassified" and "Traditional /
\* Generalist", "Medium" for "Hybrid", "Medium" or "High" for a real
\* archetype; its evidence is empty exactly for "Unclassified"
C28_ResultShape ==
    Returned =>
        /\ ret.archetype \in RealArchetypes
                \cup {"Hybrid", "Traditional / Generalist", "Unclassified"}
        /\ ret.confidence = "Low"
              <=> ret.archetype \in {"Unclassified", "Traditional / Generalist"}
        /\ ret.archetype = "Hybrid" => ret.confidence = "Medium"
        /\ ret.archetype \in RealArchetypes => ret.confidence \in {"Medium", "High"}
        /\ ret.evidence = <<>> <=> ret.archetype = "Unclassified"

\* C28 witness: a real archetype returned with its lowest score
C28_Witness ==
    /\ Scored
    /\ ret.archetype \in RealArchetypes
    /\ scores[ret.archetype] = 1
    /\ ret.confidence = "Medium"
    /\ ret.evidence # <<>>

----------------------------------------------------------------------------
(* Claims about keywords that contain a keyword of another archetype *)

Pair(long, own, short, other) ==
    [long |-> long, own |-> own, short |-> short, other |-> other]

ContainingKeywords ==
    { Pair(<<"b","2","b","2","c">>, "Integrators", <<"b","2","b">>, "Enablers"),
      Pair(<<"a","p","i","-","f","i","r","s","t">>, "Integrators", <<"a","p","i">>, "Enablers"),
      Pair(<<"c","o","r","e"," ","r","e","p","l","a","c","e","m","e","n","t">>, "Transformers", <<"r","e","p","l","a","c","e">>, "Disruptors"),
      Pair(<<"i","m","p","l","e","m","e","n","t","a","t","i","o","n"," ","p","a","r","t","n","e","r">>, "Transformers", <<"p","a","r","t","n","e","r">>, "Integrators") }

InTable(kw, a) == \E k \in 1..Len(ARCHETYPES[a]) : ARCHETYPES[a][k] = kw

\* the text holds the longer keyword of p, the shorter one only inside it, and
\* no other keyword of any archetype
OnlyOccurrences(p, s) ==
    /\ MatchPositions(p.long, s) # {}
    /\ MatchPositions(p.short, s) =
          {i + j - 1 : i \in MatchPositions(p.long, s),
                       j \in MatchPositions(p.short, p.long)}
    /\ \A a \in Archetypes : \A k \in 1..Len(ARCHETYPES[a]) :
          ARCHETYPES[a][k] \notin {p.long, p.short}
              => MatchPositions(ARCHETYPES[a][k], s) = {}

\* C29: "b2b2c", "api-first", "core replacement" and "implementation partner"
\* each contain a keyword of another archetype; a text whose only keyword
\* occurrences are n occurrences of one of them scores n for both archetypes
\* and is classified "Hybrid", never as the longer keyword's archetype alone
C29_ContainedKeywords ==
    \A p \in ContainingKeywords :
        /\ InTable(p.long, p.own) /\ InTable(p.short, p.other) /\ p.own # p.other
        /\ MatchPositions(p.short, p.long) # {}
        /\ (Returned /\ isinstance_str(text) /\ OnlyOccurrences(p, lower(text.s))) =>
              LET n == Cardinality(MatchPositions(p.long, lower(text.s)))
              IN  /\ scores[p.own] = n
                  /\ scores[p.other] = n
                  /\ ret.archetype = "Hybrid"
                  /\ ret.confidence = "Medium"

\* C29 witness: two occurrences of "b2b2c" and no other keyword
C29_Witness ==
    /\ Returned
    /\ text = PyStr(<<"b","2","b","2","c"," ","b","2","b","2","c">>)
    /\ scores["Integrators"] = 2 /\ scores["Enablers"] = 2
    /\ ret.archetype = "Hybrid"

----------------------------------------------------------------------------
(* Claims about what the age correction leaves alone *)

\* the result columns the age correction does not write
KeptColumns ==
    {"Confidence_Score", "Keywords_Found", "Secondary_Archetypes",
     "Driving_Capabilities", "Innovation_Wave"}

\* results_df as the age correction left it, and its Founded_Year column
CorrectedResults == [k \in 1..Len(processed_data.rows) |-> processed_data.rows[k].result]
CorrectedYears == [k \in 1..Len(processed_data.rows) |-> processed_data.rows[k].Founded_Year]

\* the rows that lines 291-292 select in the table the correction produced
SecondMask ==
    {k \in 1..Len(processed_data.rows) :
        FoundingColumn /\ mask(CorrectedResults, CorrectedYears, k)}

\* C30: the age correction of main changes only Predicted_Archetype and the
\* age-corrected flag of the rows it reclassifies: their confidence,
\* keywords, secondary archetypes, capabilities and wave stay as classified,
\* every other row keeps every field, and the rule applied to its own output
\* selects no row (count 0)
C30_OnlyArchetype ==
    (runner = "main" /\ Stored) =>
        /\ Len(processed_data.rows) = Len(results)
        /\ \A k \in 1..Len(results) :
              /\ processed_data.rows[k].input = df[k]
              /\ \A f \in KeptColumns : processed_data.rows[k].result[f] = results[k][f]
              /\ Old(k) \/ Untouched(k)
        /\ SecondMask = {}
        /\ Cardinality(SecondMask) = 0

\* C30 witness: a row classified "Innovators" with confidence "High" and
\* founded before 2010 ends as "Traditional / Generalist" with confidence
\* "High", next to a row that was not reclassified
C30_Witness ==
    /\ runner = "main" /\ Stored
    /\ \E k \in 1..Len(results) :
          /\ results[k].Predicted_Archetype \in {"Disruptors", "Innovators"}
          /\ results[k].Confidence_Score = "High"
          /\ Overwritten(k)
          /\ processed_data.rows[k].result.Confidence_Score = "High"
          /\ processed_data.rows[k].result.Keywords_Found # <<>>
    /\ \E k \in 1..Len(results) : Untouched(k)
    /\ reclassified_count >= 1

====
